---- MODULE Spec2Model ----
(***************************************************************************)
(* A model of the variable-computation engine of DataCal                   *)
(* (src/logics/computation.py) and of the caller that runs it              *)
(* (src/UIs/app.py).                                                       *)
(*                                                                         *)
(* Numbers are integers: true division, logarithms, roots and exponentials *)
(* are rounded down to an integer.  Every guard of the code (bounds, <= 0, *)
(* < 0, division by zero, overflow) is kept exactly.                       *)
(***************************************************************************)
EXTENDS Integers, Sequences, FiniteSets, TLC

VARIABLES
    model_df,        \* model.df: the merged dataset of the application
    formulas,        \* model.formulas: the declared formulas, in order
    calculated_df,   \* model.calculated_df: the result table the app stores
    runs,            \* number of runs started so far
    cpc,             \* position of the background thread inside compute_variables
    idx,             \* the loop index of compute_variables (0-based)
    formula,         \* the formula dict f of the iteration, type resolved
    result_df,       \* the result table under construction
    computed_vars,   \* names of the variables computed so far in the run
    progress,        \* the progress_callback calls of the run
    compute_results, \* the dict shared by the thread and finish_compute
    df,              \* the table handed to the evaluator (context_df in a run)
    formula_expr,    \* the expression of the formula under evaluation
    num_workers,     \* os.cpu_count() or 4
    fpc,             \* position inside the evaluator of the formula
    tasks,           \* the list handed to pool.map (groups_list / chunks)
    started,         \* number of tasks a worker process has picked up
    running,         \* tasks being executed by a worker process
    chunk_results,   \* pool.map's result list: task number -> returned value
    done_order,      \* the order in which the worker processes finished
    out,             \* the Series the evaluator returns (or what it raises)
    cur_row_idx,     \* _evaluate_single_row: row_idx
    cur_matches,     \* _evaluate_single_row: the matches still to be bound
    cur_local_ns,    \* _evaluate_single_row: local_ns
    cur_eval_expr,   \* _evaluate_single_row: eval_expr
    tpc,             \* position inside _evaluate_single_row, on formula texts
    formula_list,    \* VariableGenerator.formula_list: the lines of the listbox
    entry,           \* VariableGenerator: entry_name and entry_expression
    dialog,          \* the mean / stdev dialog, when one is open
    edit_log,        \* the formula list before the last edit, and how the edit ended
    file_paths,      \* model.file_paths: the file types the user selected
    dfs_by_type,     \* dfs_by_type: (file type, table) in the order of insertion
    column_sources,  \* column_sources: column name -> the file types joined by "/"
    available_vars,  \* available_vars: the sorted column names
    model_id_col,    \* model.id_col
    model_time_col,  \* model.time_col
    pending,         \* the futures of load_individual_files not yet yielded
    completed,       \* load_individual_files: completed
    load_progress,   \* the progress_callback calls of load_individual_files
    wpc              \* position in the screens before the variable generator

\* the state of one evaluator call
fvars == <<df, formula_expr, num_workers, fpc, tasks, started, running,
           chunk_results, done_order, out>>

\* the application's model
mvars == <<model_df, formulas, calculated_df, runs>>

\* the state of one run of compute_variables
pvars == <<cpc, idx, formula, result_df, computed_vars, progress, compute_results>>

\* the state of one call of _evaluate_single_row on the text of a formula
evars == <<cur_row_idx, cur_matches, cur_local_ns, cur_eval_expr, tpc>>

\* the widgets of the variable generator screen
gvars == <<formula_list, entry, dialog, edit_log>>

\* the loader and the column selection screen
lvars == <<file_paths, dfs_by_type, column_sources, available_vars, model_id_col,
           model_time_col, pending, completed, load_progress, wpc>>

\* the state that a run of compute_variables leaves alone
xvars == <<evars, gvars, lvars>>

\* xvars without evars, without gvars, and without lvars
not_evars == <<gvars, lvars>>

not_gvars == <<evars, lvars>>

not_lvars == <<evars, gvars>>

\* no call of _evaluate_single_row on a text has begun
EIdle ==
    /\ cur_row_idx = 0
    /\ cur_matches = <<>>
    /\ cur_local_ns = <<>>
    /\ cur_eval_expr = <<>>
    /\ tpc = "idle"

\* the variable generator screen is not shown
GIdle ==
    /\ formula_list = <<>>
    /\ entry = [name |-> "", expression |-> [k |-> "none"]]
    /\ dialog = [open |-> FALSE, kind |-> "", idx |-> 0]
    /\ edit_log = [before |-> <<>>, idx |-> 0, outcome |-> "none"]

\* the files are loaded and the columns chosen, or the table was given
LIdle ==
    /\ file_paths = {}
    /\ dfs_by_type = <<>>
    /\ column_sources = <<>>
    /\ available_vars = <<>>
    /\ model_id_col = ""
    /\ model_time_col = ""
    /\ pending = {}
    /\ completed = 0
    /\ load_progress = <<>>
    /\ wpc = "idle"

\* nothing outside a run has begun
XIdle == EIdle /\ GIdle /\ LIdle

vars == <<mvars, pvars, fvars, xvars>>

-----------------------------------------------------------------------------
(* Bounds of the model. *)

MaxRows == 3

MaxWorkers == 3

MaxFormulas == 2

MaxRuns == 2

MaxMissing == 1

MaxChain == 3

MaxChunkRows == 7

MaxChunkWorkers == 4

-----------------------------------------------------------------------------
(* Scalar values.  A cell, a result or a raised exception is a record      *)
(* [t, v, s]: t is the kind, v the integer payload, s the text payload.    *)

Num(i) == [t |-> "num", v |-> i, s |-> ""]

Bool(b) == [t |-> "bool", v |-> IF b THEN 1 ELSE 0, s |-> ""]

\* None / NaN: the missing marker (pd.isna is true of both).
NA == [t |-> "na", v |-> 0, s |-> ""]

PosInf == [t |-> "inf", v |-> 1, s |-> ""]

NegInf == [t |-> "inf", v |-> -1, s |-> ""]

\* A text cell (an entity id).
Str(x) == [t |-> "str", v |-> 0, s |-> x]

\* A raised exception of class kind whose message mentions what.
Raise(kind, what) == [t |-> kind, v |-> 0, s |-> what]

ExceptionKinds ==
    {"_SafeMathError", "ZeroDivisionError", "FloatingPointError", "KeyError",
     "NameError", "SyntaxError", "TypeError", "UndefinedVariableError",
     "AttributeError", "ValueError"}

IsRaise(x) == x.t \in ExceptionKinds

isna(x) == x.t = "na"

IsNumber(x) == x.t \in {"num", "bool"}

-----------------------------------------------------------------------------
(* Tables.  A DataFrame is [index, columns, data]: index is the sequence   *)
(* of row labels, columns the column names in order, data maps a column    *)
(* name to its sequence of cells.  Position p of the code (0-based, iloc)  *)
(* is element p + 1 of a sequence.                                         *)

len(frame) == Len(frame.index)

iloc_cell(frame, p, col_name) == frame.data[col_name][p + 1]

Range(f) == {f[i] : i \in DOMAIN f}

\* range(a, b) as a sequence
range(a, b) == [i \in 1..(IF b > a THEN b - a ELSE 0) |-> a + i - 1]

RECURSIVE SelectSeq2(_, _)
\* the elements of positions (0-based) ps of sequence s, in the order of ps
SelectSeq2(s, ps) ==
    IF ps = <<>> THEN <<>>
    ELSE <<s[Head(ps) + 1]>> \o SelectSeq2(s, Tail(ps))

\* frame.iloc[positions]: the rows at the given positions, labels kept
take(frame, ps) ==
    [index |-> SelectSeq2(frame.index, ps),
     columns |-> frame.columns,
     data |-> [c \in DOMAIN frame.data |-> SelectSeq2(frame.data[c], ps)]]

\* frame.reset_index(drop=True)
reset_index(frame) ==
    [frame EXCEPT !.index = range(0, Len(frame.index))]

-----------------------------------------------------------------------------
(* Expressions.  The text of a formula is modelled by its syntax tree:     *)
(*   Tok(c, o)     the offset token  c(x), c(x+N), c(x-N)  (o = 0, N, -N)   *)
(*   BadTok(c)     the malformed token  c(x+)  or  c(x-)                   *)
(*   Name(c)       a bare column name  c                                   *)
(*   Reduce(c)     the whole-column reduction  c.sum()                     *)
(*   Lit(n), Bin(op, l, r), Call(f, a), IfE(c, t, e)                       *)

Tok(c, o) == [k |-> "tok", col |-> c, off |-> o]

BadTok(c) == [k |-> "bad", col |-> c]

Name(c) == [k |-> "name", col |-> c]

Reduce(c) == [k |-> "sum", col |-> c]

Lit(n) == [k |-> "num", val |-> n]

Bin(o, a, b) == [k |-> "bin", op |-> o, l |-> a, r |-> b]

Call(f, x) == [k |-> "call", fn |-> f, a |-> x]

IfE(c, a, b) == [k |-> "IF", c |-> c, l |-> a, r |-> b]

RECURSIVE findall(_)
\* re.findall(col_pattern, formula_expr): the (col_name, offset) pairs of the
\* offset tokens, in text order; the malformed token is not matched.
findall(e) ==
    CASE e.k = "tok" -> <<(<<e.col, e.off>>)>>
      [] e.k = "bin" -> findall(e.l) \o findall(e.r)
      [] e.k = "call" -> findall(e.a)
      [] e.k = "IF" -> findall(e.c) \o findall(e.l) \o findall(e.r)
      [] OTHER -> <<>>

RECURSIVE has_bad_token(_)
has_bad_token(e) ==
    CASE e.k = "bad" -> TRUE
      [] e.k = "bin" -> has_bad_token(e.l) \/ has_bad_token(e.r)
      [] e.k = "call" -> has_bad_token(e.a)
      [] e.k = "IF" -> has_bad_token(e.c) \/ has_bad_token(e.l) \/ has_bad_token(e.r)
      [] OTHER -> FALSE

\* re.search(r'\w+\s*\(x[-+]?\d*\)', expr): an offset token, well formed or not
_is_row_formula(expr) == findall(expr) # <<>> \/ has_bad_token(expr)

-----------------------------------------------------------------------------
(* Integer versions of the math library. *)

ISqrt(n) == CHOOSE r \in 0..n : r * r <= n /\ (r + 1) * (r + 1) > n

RECURSIVE ILogBase(_, _)
ILogBase(b, n) == IF n < b THEN 0 ELSE 1 + ILogBase(b, n \div b)

RECURSIVE ILn(_, _)
\* the integer part of ln n, e taken as 193/71; ILn(n, 0) for 1 <= n < 54
ILn(n, j) == IF 193 ^ (j + 1) > n * 71 ^ (j + 1) THEN j ELSE ILn(n, j + 1)

\* the integer part of e^i, for -oo < i <= 4
IExp(i) == IF i < 0 THEN 0 ELSE (193 ^ i) \div (71 ^ i)

\* math.exp raises OverflowError above this argument (IEEE double)
ExpOverflowAbove == 709

safe_log(x) ==
    IF ~IsNumber(x) THEN Raise("TypeError", "")
    ELSE IF x.v <= 0 THEN Raise("_SafeMathError", "log")
    ELSE Num(ILn(x.v, 0))

safe_log10(x) ==
    IF ~IsNumber(x) THEN Raise("TypeError", "")
    ELSE IF x.v <= 0 THEN Raise("_SafeMathError", "log10")
    ELSE Num(ILogBase(10, x.v))

safe_log2(x) ==
    IF ~IsNumber(x) THEN Raise("TypeError", "")
    ELSE IF x.v <= 0 THEN Raise("_SafeMathError", "log2")
    ELSE Num(ILogBase(2, x.v))

safe_sqrt(x) ==
    IF ~IsNumber(x) THEN Raise("TypeError", "")
    ELSE IF x.v < 0 THEN Raise("_SafeMathError", "sqrt")
    ELSE Num(ISqrt(x.v))

safe_exp(x) ==
    IF ~IsNumber(x) THEN Raise("TypeError", "")
    ELSE IF x.v > ExpOverflowAbove THEN Raise("_SafeMathError", "exp")
    ELSE Num(IExp(x.v))

\* the functions _evaluate_single_row puts in local_ns
call_function(f, x) ==
    CASE f = "log" -> safe_log(x)
      [] f = "Ln" -> safe_log(x)
      [] f = "log10" -> safe_log10(x)
      [] f = "log2" -> safe_log2(x)
      [] f = "sqrt" -> safe_sqrt(x)
      [] f = "exp" -> safe_exp(x)
      [] OTHER -> Raise("NameError", f)

\* a binary operator of Python on two scalars, under np.errstate(divide='raise')
py_binop(o, a, b) ==
    IF ~IsNumber(a) \/ ~IsNumber(b) THEN Raise("TypeError", o)
    ELSE CASE o = "+" -> Num(a.v + b.v)
           [] o = "-" -> Num(a.v - b.v)
           [] o = "*" -> Num(a.v * b.v)
           [] o = "/" -> IF b.v = 0 THEN Raise("ZeroDivisionError", "")
                         ELSE Num(a.v \div b.v)
           [] o = "==" -> Bool(a.v = b.v)
           [] o = ">" -> Bool(a.v > b.v)
           [] OTHER -> Raise("SyntaxError", o)

\* Excel-like IF: an ordinary function, called with its three arguments evaluated
IF_function(condition, value_if_true, value_if_false) ==
    IF condition.v # 0 THEN value_if_true ELSE value_if_false

RECURSIVE py_eval_tree(_, _)
\* the evaluation of a compiled expression: left to right, arguments before the
\* call, the first exception raised ends it
py_eval_tree(e, local_ns) ==
    CASE e.k = "tok" -> local_ns[<<e.col, e.off>>]
      [] e.k = "num" -> Num(e.val)
      [] e.k = "bin" ->
            LET a == py_eval_tree(e.l, local_ns) IN
            IF IsRaise(a) THEN a
            ELSE LET b == py_eval_tree(e.r, local_ns) IN
                 IF IsRaise(b) THEN b ELSE py_binop(e.op, a, b)
      [] e.k = "call" ->
            LET a == py_eval_tree(e.a, local_ns) IN
            IF IsRaise(a) THEN a ELSE call_function(e.fn, a)
      [] e.k = "IF" ->
            LET c == py_eval_tree(e.c, local_ns) IN
            IF IsRaise(c) THEN c
            ELSE LET a == py_eval_tree(e.l, local_ns) IN
                 IF IsRaise(a) THEN a
                 ELSE LET b == py_eval_tree(e.r, local_ns) IN
                      IF IsRaise(b) THEN b ELSE IF_function(c, a, b)
      [] OTHER -> Raise("NameError", e.col)

\* eval(eval_expr, {}, local_ns): the text is compiled first
py_eval(eval_expr, local_ns) ==
    IF has_bad_token(eval_expr) THEN Raise("SyntaxError", "")
    ELSE py_eval_tree(eval_expr, local_ns)

-----------------------------------------------------------------------------
(* _evaluate_single_row *)

\* variant of target_row_of that reads the offset backwards
target_row_mirrored(row_idx, offset) == row_idx - offset

target_row_of(row_idx, offset) == row_idx + offset

\* variant of resolve_token that takes an absent or missing cell for zero
resolve_token_as_zero(frame, col_name, target_row) ==
    IF target_row < 0 \/ target_row >= len(frame) \/ col_name \notin DOMAIN frame.data
    THEN [returned |-> FALSE, value |-> Num(0)]
    ELSE IF isna(iloc_cell(frame, target_row, col_name))
    THEN [returned |-> FALSE, value |-> Num(0)]
    ELSE [returned |-> FALSE, value |-> iloc_cell(frame, target_row, col_name)]

\* the bounds check and the read of one token: [returned, value]; returned
\* means the function returned None at this token
resolve_token(frame, col_name, target_row) ==
    IF target_row < 0 \/ target_row >= len(frame)
    THEN [returned |-> TRUE, value |-> NA]
    ELSE IF col_name \notin DOMAIN frame.data
         THEN [returned |-> TRUE, value |-> NA]      \* KeyError, caught
         ELSE LET value == iloc_cell(frame, target_row, col_name) IN
              IF isna(value) THEN [returned |-> TRUE, value |-> NA]
              ELSE [returned |-> FALSE, value |-> value]

RECURSIVE bind_tokens(_, _, _, _)
\* the loop over matches: [returned, local_ns]
bind_tokens(matches, frame, row_idx, local_ns) ==
    IF matches = <<>> THEN [returned |-> FALSE, local_ns |-> local_ns]
    ELSE LET col_name == Head(matches)[1]
             offset == Head(matches)[2]
             r == resolve_token(frame, col_name, target_row_of(row_idx, offset))
         IN IF r.returned THEN [returned |-> TRUE, local_ns |-> local_ns]
            ELSE bind_tokens(Tail(matches), frame, row_idx,
                             (<<col_name, offset>> :> r.value) @@ local_ns)

\* variant of on_math_error that lets the exception through
math_error_reraised(exc) == exc

\* except (_SafeMathError, ZeroDivisionError, FloatingPointError): return None
on_math_error(exc) == NA

\* except Exception: return None
on_other_error(exc) == NA

\* the guard on the value eval returned
guard_result(result) ==
    IF isna(result) THEN NA
    ELSE IF result.t = "inf" THEN NA
    ELSE result

_evaluate_single_row(expr, frame, row_idx) ==
    LET bound == bind_tokens(findall(expr), frame, row_idx, <<>>) IN
    IF bound.returned THEN NA
    ELSE LET result == py_eval(expr, bound.local_ns) IN
         IF result.t \in {"_SafeMathError", "ZeroDivisionError", "FloatingPointError"}
         THEN on_math_error(result)
         ELSE IF IsRaise(result) THEN on_other_error(result)
         ELSE guard_result(result)

-----------------------------------------------------------------------------
(* Grouping, chunking and the sequential row-relative evaluation *)

\* Series.nunique(): the number of distinct non-missing values
nunique(column) == Cardinality({x \in Range(column) : ~isna(x)})

RECURSIVE unique_keys(_, _)
\* the distinct non-missing values of a column, in order of first appearance
unique_keys(column, seen) ==
    IF column = <<>> THEN <<>>
    ELSE IF isna(Head(column)) \/ Head(column) \in seen
         THEN unique_keys(Tail(column), seen)
         ELSE <<Head(column)>> \o unique_keys(Tail(column), seen \cup {Head(column)})

RECURSIVE positions_of(_, _, _)
\* the positions (0-based, ascending) at which column holds key, from position p on
positions_of(column, key, p) ==
    IF p >= Len(column) THEN <<>>
    ELSE IF column[p + 1] = key
         THEN <<p>> \o positions_of(column, key, p + 1)
         ELSE positions_of(column, key, p + 1)

\* list(frame.groupby(id_col, sort=False)): one (entity_id, group_df) per distinct
\* id, in order of first appearance; rows whose id is missing are in no group
groupby(frame, id_col) ==
    LET keys == unique_keys(frame.data[id_col], {}) IN
    [g \in 1..Len(keys) |->
        [entity_id |-> keys[g],
         group_df |-> take(frame, positions_of(frame.data[id_col], keys[g], 0))]]

\* the group evaluated by a worker: its own index, or the positions 0..len-1
group_frame_of(group_df) == reset_index(group_df)

_compute_group_chunk(group_tuple, expr) ==
    LET group_df_reset == group_frame_of(group_tuple.group_df) IN
    [entity_id |-> group_tuple.entity_id,
     group_results |-> [i \in 1..len(group_df_reset) |->
                           _evaluate_single_row(expr, group_df_reset, i - 1)],
     original_indices |-> group_tuple.group_df.index]

\* returns the list of (idx, result) pairs, here under the field chunk_rows
_compute_row_chunk(chunk_range, frame, expr) ==
    [chunk_rows |->
        [i \in 1..(chunk_range[2] - chunk_range[1]) |->
            <<chunk_range[1] + i - 1,
              _evaluate_single_row(expr, frame, chunk_range[1] + i - 1)>>]]

Max(a, b) == IF a >= b THEN a ELSE b

Min(a, b) == IF a <= b THEN a ELSE b

chunk_size_of(n, workers) == Max(1, n \div workers)

RECURSIVE chunk_ranges_full_only(_, _, _)
\* variant of chunk_ranges that leaves out a last chunk shorter than chunk_size
chunk_ranges_full_only(i, n, chunk_size) ==
    IF i + chunk_size > n THEN <<>>
    ELSE <<(<<i, i + chunk_size>>)>> \o chunk_ranges_full_only(i + chunk_size, n, chunk_size)

RECURSIVE chunk_ranges(_, _, _)
\* for i in range(i, n, chunk_size): chunks.append((i, min(i + chunk_size, n)))
chunk_ranges(i, n, chunk_size) ==
    IF i >= n THEN <<>>
    ELSE <<(<<i, Min(i + chunk_size, n)>>)>> \o chunk_ranges(i + chunk_size, n, chunk_size)

RECURSIVE Flatten(_)
Flatten(ss) == IF ss = <<>> THEN <<>> ELSE Head(ss) \o Flatten(Tail(ss))

\* pd.Series(values, index=index); a length mismatch raises ValueError
Series(values, index) ==
    IF Len(values) # Len(index) THEN Raise("ValueError", "length")
    ELSE [index |-> index, values |-> values]

IsSeries(x) == "values" \in DOMAIN x

_compute_row_formula(frame, expr, id_col) ==
    IF nunique(frame.data[id_col]) > 1
    THEN LET groups == groupby(frame, id_col)
             results == Flatten([g \in 1..Len(groups) |->
                            LET group_df_reset == reset_index(groups[g].group_df) IN
                            [i \in 1..len(group_df_reset) |->
                                _evaluate_single_row(expr, group_df_reset, i - 1)]])
         IN Series(results, frame.index)
    ELSE Series([i \in 1..len(frame) |-> _evaluate_single_row(expr, frame, i - 1)],
                frame.index)

-----------------------------------------------------------------------------
(* The general (vectorized) evaluator: DataFrame.eval *)

\* one element of a vectorized binary operation (NaN propagates, x/0 is +-inf)
vec_binop(o, a, b) ==
    IF o \in {"==", ">"}
    THEN IF ~IsNumber(a) \/ ~IsNumber(b) THEN Bool(FALSE)
         ELSE IF o = "==" THEN Bool(a.v = b.v) ELSE Bool(a.v > b.v)
    ELSE IF isna(a) \/ isna(b) THEN NA
    ELSE IF a.t = "inf" THEN a
    ELSE IF b.t = "inf" THEN (IF o = "/" THEN Num(0) ELSE IF o = "-" THEN [b EXCEPT !.v = -b.v] ELSE b)
    ELSE CASE o = "+" -> Num(a.v + b.v)
           [] o = "-" -> Num(a.v - b.v)
           [] o = "*" -> Num(a.v * b.v)
           [] o = "/" -> IF b.v # 0 THEN Num(a.v \div b.v)
                         ELSE IF a.v > 0 THEN PosInf
                         ELSE IF a.v < 0 THEN NegInf
                         ELSE NA

RECURSIVE SumSkipNA(_)
\* Series.sum(): missing values are skipped
SumSkipNA(column) ==
    IF column = <<>> THEN 0
    ELSE (IF IsNumber(Head(column)) THEN Head(column).v ELSE 0) + SumSkipNA(Tail(column))

IsVector(x) == "vec" \in DOMAIN x

RECURSIVE eval_vec(_, _)
\* the value of an expression over a frame: [vec |-> cells] for a column-shaped
\* value, a scalar, or the exception raised
eval_vec(e, frame) ==
    CASE e.k = "name" ->
            IF e.col \in DOMAIN frame.data THEN [vec |-> frame.data[e.col]]
            ELSE Raise("UndefinedVariableError", e.col)
      [] e.k = "sum" ->
            IF e.col \in DOMAIN frame.data THEN Num(SumSkipNA(frame.data[e.col]))
            ELSE Raise("UndefinedVariableError", e.col)
      [] e.k = "num" -> Num(e.val)
      [] e.k = "bin" ->
            LET a == eval_vec(e.l, frame) IN
            IF ~IsVector(a) /\ IsRaise(a) THEN a
            ELSE LET b == eval_vec(e.r, frame) IN
                 IF ~IsVector(b) /\ IsRaise(b) THEN b
                 ELSE IF IsVector(a) /\ IsVector(b)
                      THEN [vec |-> [i \in 1..len(frame) |-> vec_binop(e.op, a.vec[i], b.vec[i])]]
                 ELSE IF IsVector(a)
                      THEN [vec |-> [i \in 1..len(frame) |-> vec_binop(e.op, a.vec[i], b)]]
                 ELSE IF IsVector(b)
                      THEN [vec |-> [i \in 1..len(frame) |-> vec_binop(e.op, a, b.vec[i])]]
                 ELSE vec_binop(e.op, a, b)
      [] OTHER -> Raise("SyntaxError", "")

\* frame.eval(expr): a Series on the frame's index, a scalar, or an exception
pandas_eval(frame, expr) ==
    LET r == eval_vec(expr, frame) IN
    IF IsVector(r) THEN Series(r.vec, frame.index) ELSE r

_compute_eval_chunk(chunk_range, frame, expr) ==
    pandas_eval(take(frame, range(chunk_range[1], chunk_range[2])), expr)

-----------------------------------------------------------------------------
(* The parallel evaluators: what is handed to pool.map, what a worker returns, *)
(* and how the returned list is combined.                                     *)

\* the first branch of _compute_row_formula_parallel: one task per entity
group_tasks(frame, id_col) ==
    LET groups_list == groupby(frame, id_col) IN
    [g \in 1..Len(groups_list) |-> [kind |-> "group", arg |-> groups_list[g]]]

\* the second branch: one task per contiguous chunk of rows
row_chunk_tasks(frame, workers) ==
    LET chunks == chunk_ranges(0, len(frame), chunk_size_of(len(frame), workers)) IN
    [c \in 1..Len(chunks) |-> [kind |-> "rows", arg |-> chunks[c]]]

\* _compute_eval_formula_parallel: one task per contiguous chunk of rows
eval_chunk_tasks(frame, workers) ==
    LET chunks == chunk_ranges(0, len(frame), chunk_size_of(len(frame), workers)) IN
    [c \in 1..Len(chunks) |-> [kind |-> "eval", arg |-> chunks[c]]]

\* the worker function pool.map applies to one task
worker_func(task, frame, expr) ==
    CASE task.kind = "group" -> _compute_group_chunk(task.arg, expr)
      [] task.kind = "rows" -> _compute_row_chunk(task.arg, frame, expr)
      [] task.kind = "eval" -> _compute_eval_chunk(task.arg, frame, expr)

\* pool.map's return value: the results in the order of the tasks, whatever the
\* order (completion) in which the worker processes delivered them
pool_map(results, completion, n_tasks) == [i \in 1..n_tasks |-> results[i]]

\* for idx, result in zip(group_indices, group_results) / for idx, result in chunk_rows
pairs_of(task_result) ==
    IF "group_results" \in DOMAIN task_result
    THEN [i \in 1..Min(Len(task_result.original_indices), Len(task_result.group_results)) |->
             <<task_result.original_indices[i], task_result.group_results[i]>>]
    ELSE task_result.chunk_rows

RECURSIVE fill_dict(_, _)
\* results_dict[idx] = result, pair after pair
fill_dict(pairs, results_dict) ==
    IF pairs = <<>> THEN results_dict
    ELSE fill_dict(Tail(pairs), (Head(pairs)[1] :> Head(pairs)[2]) @@ results_dict)

dict_get(d, key) == IF key \in DOMAIN d THEN d[key] ELSE NA

\* results = [results_dict.get(i) for i in range(len(df))]
results_in_order(results_dict, n) == [i \in 1..n |-> dict_get(results_dict, i - 1)]

\* variant of combine_row_results that lays the values out in the order of the
\* returned list instead of placing each under its row index
combine_in_list_order(result_list, frame) ==
    LET pairs == Flatten([i \in 1..Len(result_list) |-> pairs_of(result_list[i])])
    IN Series([i \in 1..Len(pairs) |-> pairs[i][2]], frame.index)

\* the tail of _compute_row_formula_parallel, from the list pool.map returned
combine_row_results(result_list, frame) ==
    LET results_dict ==
            fill_dict(Flatten([i \in 1..Len(result_list) |-> pairs_of(result_list[i])]), <<>>)
    IN Series(results_in_order(results_dict, len(frame)), frame.index)

RECURSIVE insert_sorted(_, _)
insert_sorted(pair, sorted) ==
    IF sorted = <<>> THEN <<pair>>
    ELSE IF pair[1] < Head(sorted)[1] THEN <<pair>> \o sorted
    ELSE <<Head(sorted)>> \o insert_sorted(pair, Tail(sorted))

RECURSIVE sort_pairs(_)
\* a stable sort of (label, value) pairs by label
sort_pairs(pairs) ==
    IF pairs = <<>> THEN <<>>
    ELSE insert_sorted(pairs[Len(pairs)], sort_pairs(SubSeq(pairs, 1, Len(pairs) - 1)))

\* Series.sort_index()
sort_index(series) ==
    LET pairs == [i \in 1..Len(series.index) |-> <<series.index[i], series.values[i]>>]
        sorted == sort_pairs(pairs)
    IN [index |-> [i \in 1..Len(sorted) |-> sorted[i][1]],
        values |-> [i \in 1..Len(sorted) |-> sorted[i][2]]]

RECURSIVE first_raise(_)
first_raise(result_list) ==
    IF IsSeries(Head(result_list)) \/ ~IsRaise(Head(result_list))
    THEN first_raise(Tail(result_list))
    ELSE Head(result_list)

\* the tail of _compute_eval_formula_parallel: pd.concat(...).sort_index()
combine_eval_results(result_list) ==
    IF \E i \in 1..Len(result_list) : ~IsSeries(result_list[i]) /\ IsRaise(result_list[i])
    THEN first_raise(result_list)                    \* re-raised by pool.map
    ELSE IF result_list = <<>>
    THEN Raise("ValueError", "No objects to concatenate")
    ELSE IF \E i \in 1..Len(result_list) : ~IsSeries(result_list[i])
    THEN Raise("TypeError", "cannot concatenate")    \* a scalar chunk result
    ELSE sort_index(
            [index |-> Flatten([i \in 1..Len(result_list) |-> result_list[i].index]),
             values |-> Flatten([i \in 1..Len(result_list) |-> result_list[i].values])])

\* _compute_row_formula_parallel as a function of its arguments
_compute_row_formula_parallel(frame, expr, id_col, workers) ==
    LET task_list == IF nunique(frame.data[id_col]) > 1
                     THEN group_tasks(frame, id_col)
                     ELSE row_chunk_tasks(frame, workers)
        returned == [i \in 1..Len(task_list) |-> worker_func(task_list[i], frame, expr)]
    IN combine_row_results(pool_map(returned, <<>>, Len(task_list)), frame)

\* _compute_eval_formula_parallel as a function of its arguments
_compute_eval_formula_parallel(frame, expr, workers) ==
    IF len(frame) < workers THEN pandas_eval(frame, expr)
    ELSE LET task_list == eval_chunk_tasks(frame, workers)
             returned == [i \in 1..Len(task_list) |-> worker_func(task_list[i], frame, expr)]
         IN combine_eval_results(pool_map(returned, <<>>, Len(task_list)))

-----------------------------------------------------------------------------
(* Formula dicts, the aggregation engine and the result sanitizer *)

\* the text  mean(v) by g1, g2  of a mean formula
MeanText(v, g) == [k |-> "meantext", col |-> v, groups |-> g]

\* the text  stdev(v)  or  stdev(v) by g1, g2  of a stdev formula
StdevText(v, g) == [k |-> "stdevtext", col |-> v, groups |-> g]

\* {'name': name, 'expression': expr}: a formula typed in by the user
Formula(name, expr) ==
    [name |-> name, type |-> "", expression |-> expr, agg_var |-> "",
     agg_groups |-> <<>>]

\* the dict the mean dialog appends (agg_var, agg_groups: mean_var, mean_groups)
MeanFormula(name, mean_var, mean_groups) ==
    [name |-> name, type |-> "mean", expression |-> MeanText(mean_var, mean_groups),
     agg_var |-> mean_var, agg_groups |-> mean_groups]

\* the dict the stdev dialog appends (agg_var, agg_groups: stdev_var, stdev_groups)
StdevFormula(name, stdev_var, stdev_groups) ==
    [name |-> name, type |-> "stdev", expression |-> StdevText(stdev_var, stdev_groups),
     agg_var |-> stdev_var, agg_groups |-> stdev_groups]

\* the type of a formula dict, detected from the expression when the type
\* field is missing
resolve_type(f) ==
    IF f.type \in {"mean", "stdev"} THEN f
    ELSE IF f.expression.k = "meantext"
    THEN [f EXCEPT !.type = "mean", !.agg_var = f.expression.col,
                   !.agg_groups = f.expression.groups]
    ELSE IF f.expression.k = "stdevtext"
    THEN [f EXCEPT !.type = "stdev", !.agg_var = f.expression.col,
                   !.agg_groups = f.expression.groups]
    ELSE f

\* variant of numbers_at that counts a missing cell as zero
cells_at_as_zero(column, ps) ==
    [i \in 1..Len(ps) |->
        IF IsNumber(column[ps[i] + 1]) THEN column[ps[i] + 1] ELSE Num(0)]

\* the numbers among the cells of the rows at positions ps (missing skipped)
numbers_at(column, ps) ==
    SelectSeq(SelectSeq2(column, ps), LAMBDA x : IsNumber(x))

RECURSIVE SumSq(_)
SumSq(column) ==
    IF column = <<>> THEN 0
    ELSE Head(column).v * Head(column).v + SumSq(Tail(column))

\* Series.mean(): missing when there is no value
mean_of(xs) ==
    IF xs = <<>> THEN NA ELSE Num(SumSkipNA(xs) \div Len(xs))

\* variant of std_of with the population denominator n (ddof = 0)
std_of_population(xs) ==
    LET n == Len(xs) IN
    IF n < 1 THEN NA
    ELSE Num(ISqrt((n * SumSq(xs) - SumSkipNA(xs) * SumSkipNA(xs)) \div (n * n)))

\* variant of std_of that gives zero when there are fewer than two values
std_of_few_as_zero(xs) ==
    LET n == Len(xs) IN
    IF n < 2 THEN Num(0)
    ELSE Num(ISqrt((n * SumSq(xs) - SumSkipNA(xs) * SumSkipNA(xs)) \div (n * (n - 1))))

\* Series.std(ddof=1): missing when there are fewer than two values
std_of(xs) ==
    LET n == Len(xs) IN
    IF n < 2 THEN NA
    ELSE Num(ISqrt((n * SumSq(xs) - SumSkipNA(xs) * SumSkipNA(xs)) \div (n * (n - 1))))

\* the key tuple of the row at position p; a missing value is a key (dropna=False)
key_of(frame, groups, p) == [g \in 1..Len(groups) |-> frame.data[groups[g]][p + 1]]

\* variant of members_of that drops a row with a missing key (dropna=True)
members_dropping_missing_keys(frame, groups, p) ==
    IF \E g \in 1..Len(groups) : isna(key_of(frame, groups, p)[g]) THEN <<>>
    ELSE SelectSeq(range(0, len(frame)),
                   LAMBDA q : key_of(frame, groups, q) = key_of(frame, groups, p))

\* the positions of the rows of the group of the row at position p
members_of(frame, groups, p) ==
    SelectSeq(range(0, len(frame)),
              LAMBDA q : key_of(frame, groups, q) = key_of(frame, groups, p))

\* frame.groupby(groups, dropna=False)[target]: the exception it raises, if any
groupby_error(frame, groups, target) ==
    IF groups = <<>> THEN Raise("ValueError", "No group keys passed!")
    ELSE IF \E g \in 1..Len(groups) : groups[g] \notin DOMAIN frame.data
    THEN Raise("KeyError",
               groups[CHOOSE g \in 1..Len(groups) :
                         /\ groups[g] \notin DOMAIN frame.data
                         /\ \A h \in 1..(g - 1) : groups[h] \in DOMAIN frame.data])
    ELSE IF target \notin DOMAIN frame.data THEN Raise("KeyError", target)
    ELSE NA

_compute_mean(frame, f) ==
    LET mean_var == f.agg_var
        groups == f.agg_groups
        err == groupby_error(frame, groups, mean_var)
    IN IF IsRaise(err) THEN err
       ELSE Series([i \in 1..len(frame) |->
                       mean_of(numbers_at(frame.data[mean_var],
                                          members_of(frame, groups, i - 1)))],
                   frame.index)

_compute_stdev(frame, f) ==
    LET stdev_var == f.agg_var
        groups == f.agg_groups
        err == groupby_error(frame, groups, stdev_var)
    IN IF groups # <<>>
       THEN IF IsRaise(err) THEN err
            ELSE Series([i \in 1..len(frame) |->
                            std_of(numbers_at(frame.data[stdev_var],
                                              members_of(frame, groups, i - 1)))],
                        frame.index)
       ELSE IF stdev_var \notin DOMAIN frame.data THEN Raise("KeyError", stdev_var)
       ELSE LET stdev_value == std_of(numbers_at(frame.data[stdev_var],
                                                 range(0, len(frame))))
            IN Series([i \in 1..len(frame) |-> stdev_value], frame.index)

\* variant of _sanitize_result that also turns a missing value into zero
sanitize_missing_to_zero(series) ==
    IF ~IsSeries(series) THEN Raise("AttributeError", "copy")
    ELSE [series EXCEPT !.values =
             [i \in DOMAIN series.values |->
                 IF series.values[i].t = "inf" THEN NA
                 ELSE IF isna(series.values[i]) THEN Num(0)
                 ELSE series.values[i]]]

\* inf, -inf and nan become None; a value that is not a Series has no .copy()
_sanitize_result(series) ==
    IF ~IsSeries(series) THEN Raise("AttributeError", "copy")
    ELSE [series EXCEPT !.values =
             [i \in DOMAIN series.values |->
                 IF series.values[i].t = "inf" THEN NA ELSE series.values[i]]]

-----------------------------------------------------------------------------
(* Column access and the evaluation context of compute_variables *)

\* no table (None)
NoFrame == [index |-> <<>>, columns |-> <<>>, data |-> <<>>]

\* frame[[c1, c2]].copy()
select_columns(frame, names) ==
    [index |-> frame.index,
     columns |-> names,
     data |-> [c \in Range(names) |-> frame.data[c]]]

\* frame[name]
getitem(frame, name) == [index |-> frame.index, values |-> frame.data[name]]

\* the value a Series holds under a row label (missing when it has none)
label_get(series, label) ==
    IF \E i \in DOMAIN series.index : series.index[i] = label
    THEN series.values[CHOOSE i \in DOMAIN series.index : series.index[i] = label]
    ELSE NA

\* variant of setitem that leaves a column that already exists as it is
setitem_keep_first(frame, name, series) ==
    IF name \in Range(frame.columns) THEN frame
    ELSE [index |-> frame.index,
          columns |-> Append(frame.columns, name),
          data |-> (name :> [i \in 1..len(frame) |-> label_get(series, frame.index[i])])
                   @@ frame.data]

\* frame[name] = series: an existing column is replaced in place, a new one is
\* appended; the values are aligned on the row labels
setitem(frame, name, series) ==
    [index |-> frame.index,
     columns |-> IF name \in Range(frame.columns) THEN frame.columns
                 ELSE Append(frame.columns, name),
     data |-> (name :> [i \in 1..len(frame) |-> label_get(series, frame.index[i])])
              @@ frame.data]

RECURSIVE build_context_keep_base(_, _, _)
\* variant of build_context in which a base column is not overridden
build_context_keep_base(context_df, var_names, results) ==
    IF var_names = <<>> THEN context_df
    ELSE build_context_keep_base(
             IF Head(var_names) \in Range(context_df.columns) THEN context_df
             ELSE setitem(context_df, Head(var_names), getitem(results, Head(var_names))),
             Tail(var_names), results)

RECURSIVE build_context(_, _, _)
\* context_df = df.copy(); for var_name in computed_vars:
\*     context_df[var_name] = result_df[var_name]
build_context(context_df, var_names, results) ==
    IF var_names = <<>> THEN context_df
    ELSE build_context(setitem(context_df, Head(var_names),
                               getitem(results, Head(var_names))),
                       Tail(var_names), results)

\* str(e) as far as the model keeps it: the name the message mentions
str(e) == Str(e.s)

-----------------------------------------------------------------------------
(* The inputs of the model *)

id_column == "Firm"

time_column == "Year"

IdValues == {Str("A"), Str("B"), NA}

\* the cells a value column may hold at row i (1-based): missing, or a
\* positive number no other row holds (2, 3, 4, ...)
CellChoices(i) == {NA, Num(i + 1)}

MakeFrame(ids, revs) ==
    [index |-> range(0, Len(ids)),
     columns |-> <<id_column, time_column, "Rev">>,
     data |-> [c \in {id_column, time_column, "Rev"} |->
                 CASE c = id_column -> ids
                   [] c = time_column -> [i \in 1..Len(ids) |-> Num(2020 + i)]
                   [] OTHER -> revs]]

FramesOfLen(n) ==
    {MakeFrame(ids, revs) :
        ids \in [1..n -> IdValues],
        revs \in {r \in [1..n -> {NA} \cup {Num(i + 1) : i \in 1..n}] :
                    \A i \in 1..n : r[i] \in CellChoices(i)}}

Datasets == UNION {FramesOfLen(n) : n \in 0..MaxRows}

\* the row-relative formulas of the model
RowExprs ==
    {Tok("Rev", 0),
     Tok("Rev", -1),
     Tok("Rev", 1),
     Bin("-", Tok("Rev", 0), Tok("Rev", -1)),
     IfE(Bin(">", Tok("Rev", 1), Tok("Rev", 0)), Lit(1), Lit(0)),
     IfE(Bin(">", Tok("Rev", 0), Lit(0)), Tok("Rev", 0), Tok("Rev", -1)),
     IfE(Bin("==", Tok("Rev", 0), Lit(3)), Lit(0),
         Bin("/", Lit(12), Bin("-", Tok("Rev", 0), Lit(3)))),
     Bin("/", Lit(12), Bin("-", Tok("Rev", 0), Lit(3))),
     Call("log", Bin("-", Tok("Rev", -1), Lit(2))),
     Call("log2", Bin("-", Tok("Rev", 0), Lit(3))),
     Call("log10", Bin("-", Tok("Rev", 0), Lit(3))),
     Call("sqrt", Bin("-", Tok("Rev", 0), Lit(3))),
     Call("exp", Bin("*", Bin("-", Tok("Rev", 0), Lit(2)), Lit(1000))),
     Tok("Ghost", 0),
     Bin("+", Tok("Rev", 0), BadTok("Rev"))}

\* the general formulas of the model
GeneralExprs ==
    {Bin("*", Name("Rev"), Lit(2)),
     Bin("/", Lit(12), Bin("-", Name("Rev"), Lit(3))),
     Bin("-", Name("Rev"), Reduce("Rev")),
     Name("Ghost"),
     Lit(5)}

NotReturned == [t |-> "pending", v |-> 0, s |-> ""]

\* the rank of an id in the sort order of merge_files_on_keys (missing last)
IdRank(x) == CASE x = Str("A") -> 1 [] x = Str("B") -> 2 [] OTHER -> 3

\* the tables the application holds: merge_files_on_keys leaves the rows sorted
\* by (id, time), labelled 0..n-1.  Up to the naming of the entities, the ids
\* in use are A, or A and B; at most MaxMissing value cells are missing.
MergedDatasets ==
    {d \in Datasets :
        /\ len(d) >= MaxRows - 1
        /\ \A i, j \in 1..len(d) :
              i < j => IdRank(d.data[id_column][i]) <= IdRank(d.data[id_column][j])
        /\ Str("B") \in Range(d.data[id_column]) => Str("A") \in Range(d.data[id_column])
        /\ Cardinality({i \in 1..len(d) : isna(d.data["Rev"][i])}) <= MaxMissing}

\* the formulas the user may declare
FormulaMenu ==
    {Formula("Rev", Bin("/", Lit(12), Bin("-", Name("Rev"), Lit(3)))),
     Formula("V", Bin("-", Tok("Rev", 0), Tok("Rev", -1))),
     Formula("W", Bin("+", Name("V"), Name("Rev"))),
     MeanFormula("M", "V", <<id_column>>),
     StdevFormula("S", "Rev", <<>>),
     Formula("R", Tok("Ghost", 0)),
     Formula("B", Bin("+", Tok("Rev", 0), BadTok("Rev"))),
     Formula("T", StdevText("Rev", <<id_column>>)),
     Formula("U", MeanText("Rev", <<id_column>>))}

NoExpr == [k |-> "none"]

\* compute_results = {'success': False, 'error': None, 'df': None}
NoResults == [success |-> FALSE, error |-> NA, df |-> NoFrame]

-----------------------------------------------------------------------------
(* The evaluation of one formula by the pool of worker processes *)

InitFormula ==
    /\ model_df = NoFrame
    /\ formulas = <<>>
    /\ calculated_df = NoFrame
    /\ runs = 0
    /\ cpc = "function"
    /\ idx = 0
    /\ formula = Formula("", NoExpr)
    /\ result_df = NoFrame
    /\ computed_vars = <<>>
    /\ progress = <<>>
    /\ compute_results = NoResults
    /\ df \in Datasets
    /\ formula_expr \in RowExprs \cup GeneralExprs
    /\ num_workers \in 1..MaxWorkers
    /\ fpc = "call"
    /\ tasks = <<>>
    /\ started = 0
    /\ running = {}
    /\ chunk_results = <<>>
    /\ done_order = <<>>
    /\ out = NotReturned
    /\ XIdle

\* _compute_row_formula_parallel, several entities: one task per group
DispatchGroups ==
    /\ fpc = "call"
    /\ _is_row_formula(formula_expr)
    /\ nunique(df.data[id_column]) > 1
    /\ tasks' = group_tasks(df, id_column)
    /\ fpc' = "pool"
    /\ UNCHANGED <<mvars, pvars, df, formula_expr, num_workers, started, running, chunk_results,
                   done_order, out>>
    /\ UNCHANGED xvars

\* _compute_row_formula_parallel, at most one entity: one task per row chunk
DispatchRowChunks ==
    /\ fpc = "call"
    /\ _is_row_formula(formula_expr)
    /\ ~(nunique(df.data[id_column]) > 1)
    /\ tasks' = row_chunk_tasks(df, num_workers)
    /\ fpc' = "pool"
    /\ UNCHANGED <<mvars, pvars, df, formula_expr, num_workers, started, running, chunk_results,
                   done_order, out>>
    /\ UNCHANGED xvars

\* _compute_eval_formula_parallel, fewer rows than cores: df.eval(expr) at once
EvalSequential ==
    /\ fpc = "call"
    /\ ~_is_row_formula(formula_expr)
    /\ len(df) < num_workers
    /\ out' = pandas_eval(df, formula_expr)
    /\ fpc' = "done"
    /\ UNCHANGED <<mvars, pvars, df, formula_expr, num_workers, tasks, started, running,
                   chunk_results, done_order>>
    /\ UNCHANGED xvars

\* _compute_eval_formula_parallel: one task per row chunk
DispatchEvalChunks ==
    /\ fpc = "call"
    /\ ~_is_row_formula(formula_expr)
    /\ ~(len(df) < num_workers)
    /\ tasks' = eval_chunk_tasks(df, num_workers)
    /\ fpc' = "pool"
    /\ UNCHANGED <<mvars, pvars, df, formula_expr, num_workers, started, running, chunk_results,
                   done_order, out>>
    /\ UNCHANGED xvars

\* a free worker process picks up the next task of the list
WorkerStart ==
    /\ fpc = "pool"
    /\ started < Len(tasks)
    /\ Cardinality(running) < num_workers
    /\ started' = started + 1
    /\ running' = running \cup {started + 1}
    /\ UNCHANGED <<mvars, pvars, df, formula_expr, num_workers, fpc, tasks, chunk_results,
                   done_order, out>>
    /\ UNCHANGED xvars

\* a worker process finishes its task and delivers the result
WorkerReturn(w) ==
    /\ fpc = "pool"
    /\ w \in running
    /\ running' = running \ {w}
    /\ chunk_results' = (w :> worker_func(tasks[w], df, formula_expr)) @@ chunk_results
    /\ done_order' = Append(done_order, w)
    /\ UNCHANGED <<mvars, pvars, df, formula_expr, num_workers, fpc, tasks, started, out>>
    /\ UNCHANGED xvars

\* pool.map returns; the results are combined into the returned Series
Combine ==
    /\ fpc = "pool"
    /\ started = Len(tasks)
    /\ running = {}
    /\ LET result_list == pool_map(chunk_results, done_order, Len(tasks)) IN
       out' = IF _is_row_formula(formula_expr)
              THEN combine_row_results(result_list, df)
              ELSE combine_eval_results(result_list)
    /\ fpc' = "done"
    /\ UNCHANGED <<mvars, pvars, df, formula_expr, num_workers, tasks, started, running,
                   chunk_results, done_order>>
    /\ UNCHANGED xvars

NextFormula ==
    \/ DispatchGroups
    \/ DispatchRowChunks
    \/ EvalSequential
    \/ DispatchEvalChunks
    \/ WorkerStart
    \/ \E w \in 1..(MaxRows + 1) : WorkerReturn(w)
    \/ Combine

SpecFormula == InitFormula /\ [][NextFormula]_vars

-----------------------------------------------------------------------------
(* The application: the user declares formulas and runs compute_variables in  *)
(* a background thread; finish_compute stores the result table.              *)

Init ==
    /\ model_df \in MergedDatasets
    /\ formulas = <<>>
    /\ calculated_df = NoFrame
    /\ runs = 0
    /\ cpc = "idle"
    /\ idx = 0
    /\ formula = Formula("", NoExpr)
    /\ result_df = NoFrame
    /\ computed_vars = <<>>
    /\ progress = <<>>
    /\ compute_results = NoResults
    /\ df = NoFrame
    /\ formula_expr = NoExpr
    /\ num_workers \in 1..MaxWorkers
    /\ fpc = "idle"
    /\ tasks = <<>>
    /\ started = 0
    /\ running = {}
    /\ chunk_results = <<>>
    /\ done_order = <<>>
    /\ out = NotReturned
    /\ XIdle

\* the variable generator appends a formula dict to model.formulas
AddVariable(f) ==
    /\ cpc = "idle"
    /\ Len(formulas) < MaxFormulas
    /\ formulas' = Append(formulas, f)
    /\ UNCHANGED <<model_df, calculated_df, runs, pvars, fvars>>
    /\ UNCHANGED xvars

\* _on_compute: the background thread is started and compute_variables entered
OnCompute ==
    /\ cpc = "idle"
    /\ runs < MaxRuns
    /\ model_df # NoFrame
    /\ runs' = runs + 1
    /\ compute_results' = NoResults
    /\ result_df' = select_columns(model_df, <<id_column, time_column>>)
    /\ computed_vars' = <<>>
    /\ progress' = <<>>
    /\ idx' = 0
    /\ cpc' = "loop"
    /\ UNCHANGED <<model_df, formulas, calculated_df, formula, fvars>>
    /\ UNCHANGED xvars

\* variant of progress_args that counts from zero
progress_args_from_zero(i, total_formulas, formula_name) ==
    <<i, total_formulas, formula_name>>

\* progress_callback(idx + 1, total_formulas, formula_name)
progress_args(i, total_formulas, formula_name) ==
    <<i + 1, total_formulas, formula_name>>

\* variant of input_after_context in which the context is the input itself
input_aliased(input_df, context_df) == context_df

\* the caller's table once the context of an iteration is built: the columns
\* are written to df.copy(), never to df
input_after_context(input_df, context_df) == input_df

\* one iteration of the loop, up to the call of the evaluator: the progress
\* callback, the context and the type of the formula
BeginFormula ==
    /\ cpc = "loop"
    /\ idx < Len(formulas)
    /\ LET f == resolve_type(formulas[idx + 1]) IN
       /\ progress' = Append(progress, progress_args(idx, Len(formulas),
                                                     formulas[idx + 1].name))
       /\ df' = build_context(model_df, computed_vars, result_df)
       /\ model_df' = input_after_context(model_df, df')
       /\ formula' = f
       /\ formula_expr' = f.expression
       /\ fpc' = IF f.type \in {"mean", "stdev"} THEN "agg" ELSE "call"
    /\ cpc' = "eval"
    /\ UNCHANGED <<formulas, calculated_df, runs, idx, result_df, computed_vars,
                   compute_results, num_workers, tasks, started, running,
                   chunk_results, done_order, out>>
    /\ UNCHANGED xvars

ComputeMean ==
    /\ cpc = "eval"
    /\ fpc = "agg"
    /\ formula.type = "mean"
    /\ out' = _compute_mean(df, formula)
    /\ fpc' = "done"
    /\ UNCHANGED <<mvars, pvars, df, formula_expr, num_workers, tasks, started,
                   running, chunk_results, done_order>>
    /\ UNCHANGED xvars

ComputeStdev ==
    /\ cpc = "eval"
    /\ fpc = "agg"
    /\ formula.type = "stdev"
    /\ out' = _compute_stdev(df, formula)
    /\ fpc' = "done"
    /\ UNCHANGED <<mvars, pvars, df, formula_expr, num_workers, tasks, started,
                   running, chunk_results, done_order>>
    /\ UNCHANGED xvars

\* variant of sanitized_or_raised that stores what the evaluator returned
returned_as_it_is(returned) == returned

\* what the right-hand side of  result_df[formula_name] = ...  yields: the
\* sanitized column, or the exception raised by the evaluator or the sanitizer
sanitized_or_raised(returned) ==
    IF ~IsSeries(returned) /\ IsRaise(returned) THEN returned
    ELSE _sanitize_result(returned)

\* variant of next_formula_index that takes the same formula again
retried_formula_index(i) == i

\* for idx, f in enumerate(formulas): the position after the one just computed
next_formula_index(i) == i + 1

\* the evaluator returned: the sanitized column is stored and the loop goes on
StoreResult ==
    /\ cpc = "eval"
    /\ fpc = "done"
    /\ IsSeries(sanitized_or_raised(out))
    /\ result_df' = setitem(result_df, formula.name, sanitized_or_raised(out))
    /\ computed_vars' = Append(computed_vars, formula.name)
    /\ idx' = next_formula_index(idx)
    /\ cpc' = "loop"
    /\ fpc' = "idle"
    /\ tasks' = <<>>
    /\ started' = 0
    /\ running' = {}
    /\ chunk_results' = <<>>
    /\ done_order' = <<>>
    /\ out' = NotReturned
    /\ UNCHANGED <<mvars, formula, progress, compute_results, df, formula_expr,
                   num_workers>>
    /\ UNCHANGED xvars

\* variant of on_exception that hands over the columns computed so far
on_exception_partial(e, partial_df) ==
    [success |-> TRUE, error |-> str(e), df |-> partial_df]

\* the exception a failed run leaves in compute_results
on_exception(e, partial_df) == [success |-> FALSE, error |-> str(e), df |-> NoFrame]

\* the evaluator raised: the exception leaves compute_variables and is caught
\* by compute_in_background
RaiseFormula ==
    /\ cpc = "eval"
    /\ fpc = "done"
    /\ ~IsSeries(sanitized_or_raised(out))
    /\ compute_results' = on_exception(sanitized_or_raised(out), result_df)
    /\ cpc' = "raised"
    /\ fpc' = "idle"
    /\ tasks' = <<>>
    /\ started' = 0
    /\ running' = {}
    /\ chunk_results' = <<>>
    /\ done_order' = <<>>
    /\ out' = NotReturned
    /\ UNCHANGED <<mvars, idx, formula, result_df, computed_vars, progress, df,
                   formula_expr, num_workers>>
    /\ UNCHANGED xvars

\* the loop is over: compute_variables returns result_df
ReturnResult ==
    /\ cpc = "loop"
    /\ idx = Len(formulas)
    /\ compute_results' = [success |-> TRUE, error |-> NA, df |-> result_df]
    /\ cpc' = "returned"
    /\ UNCHANGED <<mvars, idx, formula, result_df, computed_vars, progress, fvars>>
    /\ UNCHANGED xvars

\* what finish_compute leaves in model.calculated_df
stored_table(results, previous) == IF results.success THEN results.df ELSE previous

\* finish_compute, on the main thread
FinishCompute ==
    /\ cpc \in {"returned", "raised"}
    /\ calculated_df' = stored_table(compute_results, calculated_df)
    /\ cpc' = "idle"
    /\ UNCHANGED <<model_df, formulas, runs, idx, formula, result_df,
                   computed_vars, progress, compute_results, fvars>>
    /\ UNCHANGED xvars

Next ==
    \/ \E f \in FormulaMenu : AddVariable(f)
    \/ OnCompute
    \/ BeginFormula
    \/ ComputeMean
    \/ ComputeStdev
    \/ DispatchGroups
    \/ DispatchRowChunks
    \/ EvalSequential
    \/ DispatchEvalChunks
    \/ WorkerStart
    \/ \E w \in 1..(MaxRows + 1) : WorkerReturn(w)
    \/ Combine
    \/ StoreResult
    \/ RaiseFormula
    \/ ReturnResult
    \/ FinishCompute

Spec == Init /\ [][Next]_vars

-----------------------------------------------------------------------------
(* Runs over a formula list that is already declared: up to MaxChain formulas *)
(* drawn from a few formulas of the menu, so that chains of three are run.    *)

ChainMenu == {f \in FormulaMenu : f.name \in {"Rev", "V", "M", "S"}}

ChainLists == UNION {[1..n -> ChainMenu] : n \in 0..MaxChain}

InitChain ==
    /\ model_df \in MergedDatasets
    /\ formulas \in ChainLists
    /\ calculated_df = NoFrame
    /\ runs = 0
    /\ cpc = "idle"
    /\ idx = 0
    /\ formula = Formula("", NoExpr)
    /\ result_df = NoFrame
    /\ computed_vars = <<>>
    /\ progress = <<>>
    /\ compute_results = NoResults
    /\ df = NoFrame
    /\ formula_expr = NoExpr
    /\ num_workers \in 1..MaxWorkers
    /\ fpc = "idle"
    /\ tasks = <<>>
    /\ started = 0
    /\ running = {}
    /\ chunk_results = <<>>
    /\ done_order = <<>>
    /\ out = NotReturned
    /\ XIdle

NextChain ==
    \/ OnCompute
    \/ BeginFormula
    \/ ComputeMean
    \/ ComputeStdev
    \/ DispatchGroups
    \/ DispatchRowChunks
    \/ EvalSequential
    \/ DispatchEvalChunks
    \/ WorkerStart
    \/ \E w \in 1..(MaxRows + 1) : WorkerReturn(w)
    \/ Combine
    \/ StoreResult
    \/ RaiseFormula
    \/ ReturnResult
    \/ FinishCompute

SpecChain == InitChain /\ [][NextChain]_vars

-----------------------------------------------------------------------------
(* What the row-relative evaluation is expected to read, stated on the table  *)
(* itself.  With several distinct ids the entity of a row is the set of rows   *)
(* holding the same id, and a row whose id is missing is in no entity; with at *)
(* most one distinct id the whole table is one entity (spec 4.2, last line).   *)

Positions(frame) == 0..(len(frame) - 1)

Ids(frame) == frame.data[id_column]

SeveralEntities(frame) == Cardinality({x \in Range(Ids(frame)) : ~isna(x)}) > 1

InSomeEntity(frame, p) == ~SeveralEntities(frame) \/ ~isna(Ids(frame)[p + 1])

SameEntity(frame, p, q) ==
    \/ ~SeveralEntities(frame)
    \/ (~isna(Ids(frame)[p + 1]) /\ Ids(frame)[p + 1] = Ids(frame)[q + 1])

EntityOf(frame, p) == {q \in Positions(frame) : SameEntity(frame, p, q)}

\* the position of row p in its entity's row sequence
LocalPosition(frame, p) == Cardinality({q \in EntityOf(frame, p) : q < p})

\* the elements of a set of positions, ascending
Ascending(S) ==
    [i \in 1..Cardinality(S) |-> CHOOSE q \in S : Cardinality({r \in S : r < q}) = i - 1]

\* the rows of the entity of row p, as a table of its own
EntityFrame(frame, p) == reset_index(take(frame, Ascending(EntityOf(frame, p))))

\* the cell that token c(x+o) denotes at row p, NA when there is none
ExpectedCell(frame, p, c, o) ==
    LET k == LocalPosition(frame, p) + o
        hit == {q \in EntityOf(frame, p) : LocalPosition(frame, q) = k}
    IN IF hit = {} \/ c \notin DOMAIN frame.data THEN NA
       ELSE frame.data[c][(CHOOSE q \in hit : TRUE) + 1]

TokensOf(expr) == Range(findall(expr))

AllResolved(frame, expr, p) ==
    \A tk \in TokensOf(expr) : ~isna(ExpectedCell(frame, p, tk[1], tk[2]))

ExpectedNs(frame, expr, p) ==
    [tk \in TokensOf(expr) |-> ExpectedCell(frame, p, tk[1], tk[2])]

MathErrors == {"_SafeMathError", "ZeroDivisionError", "FloatingPointError"}

RowDone == fpc = "done" /\ _is_row_formula(formula_expr)

GeneralDone == fpc = "done" /\ ~_is_row_formula(formula_expr)

OutAt(p) == out.values[p + 1]

\* the chunk of the general evaluator that holds row p
ChunkOf(frame, workers, p) ==
    LET chunks == chunk_ranges(0, len(frame), chunk_size_of(len(frame), workers)) IN
    chunks[CHOOSE c \in 1..Len(chunks) : chunks[c][1] <= p /\ p < chunks[c][2]]

\* the value the worker given row p computes for it
ValueComputedFor(frame, expr, workers, p) ==
    IF _is_row_formula(expr)
    THEN IF ~InSomeEntity(frame, p) THEN NA
         ELSE _evaluate_single_row(expr, EntityFrame(frame, p), LocalPosition(frame, p))
    ELSE IF len(frame) < workers THEN pandas_eval(frame, expr).values[p + 1]
    ELSE LET c == ChunkOf(frame, workers, p) IN
         _compute_eval_chunk(c, frame, expr).values[p - c[1] + 1]

OutOfOrder == \E i, j \in 1..Len(done_order) : i < j /\ done_order[i] > done_order[j]

-----------------------------------------------------------------------------
(* Claims on the evaluation of one formula (SpecFormula) *)

\* C2: for every dataset, row-relative expression and worker count, the Series
\* returned by _compute_row_formula_parallel equals the one the sequential
\* _compute_row_formula returns.
C2_ParallelEqualsSequential ==
    RowDone => out = _compute_row_formula(df, formula_expr, id_column)

\* C3: for every dataset, general expression and worker count, whenever both the
\* chunked evaluation and the evaluation over the whole table return a column,
\* they hold the same value at every row.
C3_ChunkedEqualsWhole ==
    (GeneralDone /\ IsSeries(out) /\ IsSeries(pandas_eval(df, formula_expr)))
        => out.values = pandas_eval(df, formula_expr).values

\* C4: whatever the order in which the workers finished, the returned column is
\* the one determined by the table, the expression and the worker count alone,
\* it is labelled like the table, and each row holds the value computed for that
\* very row (missing for a row that no worker was given).
C4_OutputIndependentOfCompletionOrder ==
    fpc = "done" =>
        /\ out = IF _is_row_formula(formula_expr)
                 THEN _compute_row_formula_parallel(df, formula_expr, id_column, num_workers)
                 ELSE _compute_eval_formula_parallel(df, formula_expr, num_workers)
        /\ _is_row_formula(formula_expr) => IsSeries(out)
        /\ IsSeries(out) =>
              /\ out.index = df.index
              /\ \A p \in Positions(df) :
                    OutAt(p) = ValueComputedFor(df, formula_expr, num_workers, p)

\* C4 witness: three workers finished out of task order and the column holds, at
\* every row, the value of that row.
C4_Witness ==
    /\ fpc = "done"
    /\ OutOfOrder
    /\ Len(tasks) >= 3
    /\ IsSeries(out)
    /\ \A p \in Positions(df) : ~isna(OutAt(p))
    /\ \E p, q \in Positions(df) : OutAt(p) # OutAt(q)

\* C5: at every evaluated row, a formula that is one token c(x+o) yields the cell
\* of column c at position p+o of the row sequence of the row's entity (missing
\* when there is no such position), and Rev(x) - Rev(x-1) yields the difference
\* of the cells at positions p and p-1 of that sequence.
C5_OffsetWithinEntity ==
    RowDone =>
        /\ IsSeries(out)
        /\ \A p \in Positions(df) : InSomeEntity(df, p) =>
              /\ formula_expr.k = "tok" =>
                    OutAt(p) = ExpectedCell(df, p, formula_expr.col, formula_expr.off)
              /\ formula_expr = Bin("-", Tok("Rev", 0), Tok("Rev", -1)) =>
                    OutAt(p) =
                      IF AllResolved(df, formula_expr, p)
                      THEN Num(ExpectedCell(df, p, "Rev", 0).v - ExpectedCell(df, p, "Rev", -1).v)
                      ELSE NA

\* C5 witness: Rev(x-1) over two entities whose rows interleave; the first row of
\* each entity is missing and the second row of A holds A's first value, which
\* is not the value of the row above it in the table.
C5_Witness ==
    /\ RowDone
    /\ formula_expr = Tok("Rev", -1)
    /\ Ids(df) = <<Str("A"), Str("B"), Str("A")>>
    /\ df.data["Rev"] = <<Num(2), Num(3), Num(4)>>
    /\ out.values = <<NA, NA, Num(2)>>

\* C6: a row at which some token of the expression denotes no cell (position
\* outside the entity, or a missing cell) has the missing marker as its result,
\* wherever in the expression the token stands; no error is raised; and every
\* row whose tokens all denote cells has the result of the expression on its
\* own cells.
C6_UnresolvedTokenYieldsMissing ==
    RowDone =>
        /\ IsSeries(out)
        /\ \A p \in Positions(df) : InSomeEntity(df, p) =>
              IF AllResolved(df, formula_expr, p)
              THEN LET r == py_eval(formula_expr, ExpectedNs(df, formula_expr, p)) IN
                   OutAt(p) = IF IsRaise(r) THEN NA ELSE r
              ELSE OutAt(p) = NA

\* C6 witness: IF(Rev(x) > 0, Rev(x), Rev(x-1)) on one entity: the first row is
\* missing although its condition holds and only the branch not selected
\* refers to the row before it; the second row has its own value.
C6_Witness ==
    /\ RowDone
    /\ formula_expr = IfE(Bin(">", Tok("Rev", 0), Lit(0)), Tok("Rev", 0), Tok("Rev", -1))
    /\ len(df) = 2
    /\ ~SeveralEntities(df)
    /\ df.data["Rev"] = <<Num(2), Num(3)>>
    /\ out.values = <<NA, Num(3)>>

\* C7: a row whose evaluation meets a math-domain violation (log of a value
\* <= 0, sqrt of a negative value, division by zero, exp overflow) has the
\* missing marker as its result; every row without one has the value of the
\* expression on its own cells; the evaluation returns a column, it never raises.
C7_MathErrorYieldsMissing ==
    RowDone =>
        /\ IsSeries(out)
        /\ \A p \in Positions(df) :
              (InSomeEntity(df, p) /\ AllResolved(df, formula_expr, p)) =>
                 LET r == py_eval(formula_expr, ExpectedNs(df, formula_expr, p)) IN
                 /\ r.t \in MathErrors => OutAt(p) = NA
                 /\ ~IsRaise(r) => OutAt(p) = r

\* C7 witness: 12 / (Rev(x) - 3) on one entity with Rev = 2, 3, 4: the row
\* where the divisor is zero is missing, the rows around it hold their quotient.
C7_Witness ==
    /\ RowDone
    /\ formula_expr = Bin("/", Lit(12), Bin("-", Tok("Rev", 0), Lit(3)))
    /\ ~SeveralEntities(df)
    /\ df.data["Rev"] = <<Num(2), Num(3), Num(4)>>
    /\ out.values = <<Num(-12), NA, Num(12)>>

-----------------------------------------------------------------------------
(* What a run is expected to compute, stated on the formula list itself *)

\* the branch of compute_variables taken for a formula dict, as a function of
\* the formula and of its context
evaluate_formula(f, context_df, id_col, workers) ==
    CASE f.type = "mean" -> _compute_mean(context_df, f)
      [] f.type = "stdev" -> _compute_stdev(context_df, f)
      [] f.type \notin {"mean", "stdev"} /\ _is_row_formula(f.expression) ->
            _compute_row_formula_parallel(context_df, f.expression, id_col, workers)
      [] OTHER -> _compute_eval_formula_parallel(context_df, f.expression, workers)

BaseColumns == Range(model_df.columns)

\* the names of the formulas declared before formula k (1-based)
EarlierNames(k) == {formulas[j].name : j \in 1..(k - 1)}

\* the last formula before formula k that bears the name c
LastNamed(c, k) ==
    CHOOSE j \in 1..(k - 1) :
        /\ formulas[j].name = c
        /\ \A i \in (j + 1)..(k - 1) : formulas[i].name # c

RECURSIVE ExpectedColumn(_)
\* the cells formula j contributes: its sanitized result on the base columns
\* overridden by the columns of formulas 1..j-1
ExpectedColumn(j) ==
    LET context == [index |-> model_df.index,
                    columns |-> model_df.columns,
                    data |-> [c \in BaseColumns \cup EarlierNames(j) |->
                                 IF c \in EarlierNames(j)
                                 THEN ExpectedColumn(LastNamed(c, j))
                                 ELSE model_df.data[c]]]
    IN _sanitize_result(evaluate_formula(resolve_type(formulas[j]), context,
                                         id_column, num_workers)).values

\* the names a row-relative expression refers to through its offset tokens
TokenColumns(e) == {findall(e)[i][1] : i \in DOMAIN findall(e)}

\* formula k is a row-relative formula with a structural error: a token on a
\* column that is neither a base column nor an earlier formula, or a malformed
\* token
BrokenRowFormula(k) ==
    LET f == resolve_type(formulas[k]) IN
    /\ f.type \notin {"mean", "stdev"}
    /\ _is_row_formula(f.expression)
    /\ \/ has_bad_token(f.expression)
       \/ \E c \in TokenColumns(f.expression) : c \notin BaseColumns \cup EarlierNames(k)

-----------------------------------------------------------------------------
(* Claims on a run of compute_variables (Spec) *)

\* C1: when formula k is evaluated, the columns of its context are the base
\* columns and the names of formulas 1..k-1 and no other; a column bearing the
\* name of an earlier formula holds that formula's sanitized result (no
\* infinite cell), also when a base column has the same name; every other
\* column holds the raw base cells.
C1_ContextIsBasePlusEarlierResults ==
    cpc = "eval" =>
        /\ df.index = model_df.index
        /\ DOMAIN df.data = BaseColumns \cup EarlierNames(idx + 1)
        /\ \A c \in DOMAIN df.data :
              IF c \in EarlierNames(idx + 1)
              THEN /\ df.data[c] = ExpectedColumn(LastNamed(c, idx + 1))
                   /\ \A i \in DOMAIN df.data[c] : df.data[c][i].t # "inf"
              ELSE df.data[c] = model_df.data[c]

\* a second formula is evaluated after a formula named like the base column Rev
\* whose raw result was infinite at a row: the context holds missing there
C1_Witness ==
    /\ cpc = "eval"
    /\ idx = 1
    /\ formulas[1].name = "Rev"
    /\ "Rev" \in BaseColumns
    /\ \E i \in DOMAIN df.data["Rev"] :
          /\ model_df.data["Rev"][i] = Num(3)
          /\ isna(df.data["Rev"][i])
    /\ \E i \in DOMAIN df.data["Rev"] :
          /\ ~isna(df.data["Rev"][i])
          /\ df.data["Rev"][i] # model_df.data["Rev"][i]

\* C8: a row-relative formula that refers to a column absent from the base
\* dataset and from the earlier formulas, or that holds a malformed token,
\* aborts the run: the loop never gets past it and the run never returns a
\* table.
C8_StructuralErrorAbortsRun ==
    cpc \in {"loop", "returned"} => \A k \in 1..idx : ~BrokenRowFormula(k)

\* C9: when the computation of formula k fails, the run hands over no table,
\* the formulas after k are not begun, and finish_compute leaves the stored
\* table as it was.
C9_FailedRunDeliversNothing ==
    /\ [](cpc = "raised" =>
            /\ ~compute_results.success
            /\ compute_results.df = NoFrame
            /\ Len(progress) = idx + 1
            /\ Len(computed_vars) = idx)
    /\ [][cpc = "raised" =>
            /\ cpc' = "idle"
            /\ calculated_df' = calculated_df
            /\ progress' = progress
            /\ ~compute_results'.success]_vars

\* the second formula of a run fails after the first one was computed, while
\* the app holds the table of an earlier run
C9_Witness ==
    /\ cpc = "raised"
    /\ idx = 1
    /\ Len(result_df.columns) = 3
    /\ calculated_df # NoFrame

\* C10: the error of a failed run names the formula that failed.
C10_FailureNamesFormula ==
    cpc = "raised" => compute_results.error = Str(formulas[idx + 1].name)

\* C11: a progress notification is emitted only for a formula that has
\* completed: when notification number k exists, the column of formula k has
\* been stored (the loop has moved past it), and a formula whose computation
\* failed has none.
C11_ProgressAfterCompletion ==
    cpc \in {"loop", "eval", "returned", "raised"} =>
        \A k \in 1..Len(progress) : k <= idx

\* C12: during a run and at its end the notifications emitted so far are
\* numbered 1, 2, 3, ... in order, the i-th being (i, N, name of formula i) for
\* the N formulas of the list; there are never more than N, and a run that
\* completes has emitted exactly N.
C12_ProgressStreamInOrder ==
    cpc \in {"loop", "eval", "returned", "raised"} =>
        /\ Len(progress) <= Len(formulas)
        /\ \A i \in 1..Len(progress) :
              progress[i] = <<i, Len(formulas), formulas[i].name>>
        /\ cpc = "returned" => Len(progress) = Len(formulas)

\* a run over two formulas of different names has completed with its two
\* notifications
C12_Witness ==
    /\ cpc = "returned"
    /\ Len(formulas) = 2
    /\ formulas[1].name # formulas[2].name
    /\ progress = <<(<<1, 2, formulas[1].name>>), (<<2, 2, formulas[2].name>>)>>

C14_ResultTableShape ==
    cpc = "returned" =>
        /\ compute_results.df.columns =
              <<id_column, time_column>> \o [k \in 1..Len(formulas) |-> formulas[k].name]
        /\ Len(compute_results.df.columns) = Len(formulas) + 2
        /\ compute_results.df.index = model_df.index
        /\ compute_results.df.data[id_column] = model_df.data[id_column]
        /\ compute_results.df.data[time_column] = model_df.data[time_column]

-----------------------------------------------------------------------------
(* Claims on runs over chains of formulas (SpecChain) *)

\* formula j (j < k) is the last formula before formula k bearing its name,
\* and an earlier formula bears the same name
Redefines(j, k) ==
    /\ j < k
    /\ \E i \in 1..(j - 1) : formulas[i].name = formulas[j].name
    /\ \A i \in (j + 1)..(k - 1) : formulas[i].name # formulas[j].name

\* C15: a formula list in which a name is declared twice is run like any
\* other: every formula whose evaluation returns is stored, a run fails only
\* where the evaluation of the formula itself fails, and a formula evaluated
\* after the second declaration finds under that name the sanitized result of
\* the second declaration.
C15_LaterDefinitionShadows ==
    /\ cpc \in {"loop", "eval", "raised", "returned"} =>
          computed_vars = [j \in 1..idx |-> formulas[j].name]
    /\ cpc = "raised" =>
          ~IsSeries(sanitized_or_raised(
               evaluate_formula(resolve_type(formulas[idx + 1]), df, id_column,
                                num_workers)))
    /\ cpc = "eval" =>
          \A j \in 1..idx : Redefines(j, idx + 1) =>
              LET shadowing == df.data[formulas[j].name] IN
              /\ shadowing = ExpectedColumn(j)
              /\ \A i \in DOMAIN shadowing : shadowing[i].t # "inf"

\* Rev is declared twice, the second declaration computes from the first and
\* differs from it, and the third formula V is evaluated on the second
C15_Witness ==
    /\ cpc = "eval"
    /\ idx = 2
    /\ formulas[1].name = "Rev"
    /\ formulas[2].name = "Rev"
    /\ formulas[3].name = "V"
    /\ ExpectedColumn(1) # ExpectedColumn(2)
    /\ df.data["Rev"] = ExpectedColumn(2)
    /\ \E i \in DOMAIN df.data["Rev"] : ~isna(df.data["Rev"][i])

-----------------------------------------------------------------------------
(* Claims on the aggregation engine and the sanitizer (Spec) *)

\* the rows whose cells in the group columns equal those of row p (a missing
\* cell is a key value like any other)
GroupOf(frame, groups, p) ==
    {q \in Positions(frame) :
        \A g \in 1..Len(groups) :
            frame.data[groups[g]][q + 1] = frame.data[groups[g]][p + 1]}

\* the rows among S whose cell in column c is a number
Valued(frame, c, S) == {q \in S : IsNumber(frame.data[c][q + 1])}

RECURSIVE SumAt(_, _, _)
\* the sum of column c over the rows S
SumAt(frame, c, S) ==
    IF S = {} THEN 0
    ELSE LET q == CHOOSE r \in S : TRUE IN
         frame.data[c][q + 1].v + SumAt(frame, c, S \ {q})

RECURSIVE SumSqAt(_, _, _)
\* the sum of the squares of column c over the rows S
SumSqAt(frame, c, S) ==
    IF S = {} THEN 0
    ELSE LET q == CHOOSE r \in S : TRUE IN
         frame.data[c][q + 1].v * frame.data[c][q + 1].v + SumSqAt(frame, c, S \ {q})

\* m is the arithmetic mean of column c over the rows S, rounded down
IsMeanOf(m, frame, c, S) ==
    /\ m.t = "num"
    /\ Cardinality(S) * m.v <= SumAt(frame, c, S)
    /\ SumAt(frame, c, S) < Cardinality(S) * (m.v + 1)

\* v is the sample standard deviation (denominator n - 1) of column c over
\* the n >= 2 rows S, rounded down:  v^2 <= sum((x - mean)^2) / (n - 1) < (v + 1)^2
IsSampleStdOf(v, frame, c, S) ==
    LET n == Cardinality(S)
        d == n * SumSqAt(frame, c, S) - SumAt(frame, c, S) * SumAt(frame, c, S)
    IN /\ v.t = "num"
       /\ v.v >= 0
       /\ v.v * v.v * n * (n - 1) <= d
       /\ d < (v.v + 1) * (v.v + 1) * n * (n - 1)

AggregationDone(type) ==
    cpc = "eval" /\ fpc = "done" /\ formula.type = type /\ IsSeries(out)

\* C16: the column a mean formula returns holds, at every row, the arithmetic
\* mean of the target over the rows of the row's group whose target is not
\* missing, the same at every row of the group; a group whose target is
\* missing at every row has missing at all its rows.
C16_GroupMean ==
    AggregationDone("mean") =>
        /\ out.index = df.index
        /\ \A p \in Positions(df) :
              LET members == GroupOf(df, formula.agg_groups, p)
                  valued == Valued(df, formula.agg_var, members)
              IN /\ valued = {} => isna(OutAt(p))
                 /\ valued # {} => IsMeanOf(OutAt(p), df, formula.agg_var, valued)
                 /\ \A q \in members : OutAt(q) = OutAt(p)

\* mean(Rev) by Firm: entity A has the values 2 and 3 and the mean 2 (2.5
\* rounded down) at both its rows, entity B has no value and missing
C16_Witness ==
    /\ AggregationDone("mean")
    /\ formula.agg_var = "Rev"
    /\ Ids(df) = <<Str("A"), Str("A"), Str("B")>>
    /\ df.data["Rev"] = <<Num(2), Num(3), NA>>
    /\ out.values = <<Num(2), Num(2), NA>>


\* C17: the column a stdev formula without groups returns holds the same
\* scalar at every row: the sample standard deviation (denominator n - 1) of
\* the non-missing cells of the whole target column, and missing at every row
\* when the column has fewer than two non-missing cells.
C17_UngroupedStdev ==
    (AggregationDone("stdev") /\ formula.agg_groups = <<>>) =>
        LET valued == Valued(df, formula.agg_var, Positions(df)) IN
        /\ out.index = df.index
        /\ \A p \in Positions(df) :
              /\ Cardinality(valued) < 2 => isna(OutAt(p))
              /\ Cardinality(valued) >= 2 =>
                    IsSampleStdOf(OutAt(p), df, formula.agg_var, valued)
              /\ OutAt(p) = OutAt(0)

\* stdev(Rev) over the cells 2, missing, 4: the two values have the sample
\* deviation sqrt(2), 1 rounded down, at all three rows
C17_Witness ==
    /\ AggregationDone("stdev")
    /\ formula.agg_groups = <<>>
    /\ formula.agg_var = "Rev"
    /\ df.data["Rev"] = <<Num(2), NA, Num(4)>>
    /\ out.values = <<Num(1), Num(1), Num(1)>>


\* the current formula is a stdev over groups
GroupedStdev == formula.type = "stdev" /\ formula.agg_groups # <<>>

\* the rows of the group of row p that have a value in the target
ValuedInGroup(p) ==
    Valued(df, formula.agg_var, GroupOf(df, formula.agg_groups, p))

\* C18: a stdev over groups returns a column, never an exception: a row of a
\* group with fewer than two non-missing target cells has missing, a row of
\* any other group has the sample deviation of its own group; the column is
\* stored with missing at exactly the rows of the small groups, and no run
\* fails at such a formula.
C18_SmallGroupIsMissingNotError ==
    /\ (cpc = "eval" /\ fpc = "done" /\ GroupedStdev) =>
          /\ IsSeries(out)
          /\ IsSeries(sanitized_or_raised(out))
          /\ \A p \in Positions(df) :
                /\ Cardinality(ValuedInGroup(p)) < 2 => isna(OutAt(p))
                /\ Cardinality(ValuedInGroup(p)) >= 2 =>
                      IsSampleStdOf(OutAt(p), df, formula.agg_var, ValuedInGroup(p))
    /\ (cpc = "loop" /\ idx >= 1 /\ GroupedStdev) =>
          \A p \in Positions(df) :
              isna(result_df.data[formula.name][p + 1])
                  <=> Cardinality(ValuedInGroup(p)) < 2
    /\ cpc = "raised" => ~GroupedStdev

\* stdev(Rev) by Firm was stored: entity A with the values 2 and 3 has the
\* deviation sqrt(1/2), 0 rounded down, at its rows; entity B with the single
\* value 4 has missing
C18_Witness ==
    /\ cpc = "loop"
    /\ idx = 1
    /\ GroupedStdev
    /\ Ids(df) = <<Str("A"), Str("A"), Str("B")>>
    /\ df.data["Rev"] = <<Num(2), Num(3), Num(4)>>
    /\ result_df.data[formula.name] = <<Num(0), Num(0), NA>>


\* the column holds neither an infinity nor a missing value
AllFinite(series) ==
    \A i \in DOMAIN series.values :
        series.values[i].t # "inf" /\ ~isna(series.values[i])

\* the column holds an infinity
HoldsInf(series) == \E i \in DOMAIN series.values : series.values[i].t = "inf"

\* C19: sanitizing twice is sanitizing once, for every column an evaluator
\* returns and for every sanitized column of the result table; a column with
\* no infinity and no missing value is returned as it is.
C19_SanitizerIdempotent ==
    /\ (cpc = "eval" /\ fpc = "done" /\ IsSeries(out)) =>
          /\ _sanitize_result(_sanitize_result(out)) = _sanitize_result(out)
          /\ AllFinite(out) => _sanitize_result(out) = out
    /\ cpc \in {"loop", "eval", "returned", "raised"} =>
          \A c \in Range(computed_vars) :
              _sanitize_result(getitem(result_df, c)) = getitem(result_df, c)

\* 12 / (Rev - 3) returned a column with an infinity next to a number: the
\* sanitizer changes it, and changes nothing the second time
C19_Witness ==
    /\ cpc = "eval"
    /\ fpc = "done"
    /\ IsSeries(out)
    /\ HoldsInf(out)
    /\ \E i \in DOMAIN out.values : out.values[i].t = "num"
    /\ _sanitize_result(out) # out
    /\ ~HoldsInf(_sanitize_result(out))


\* no cell of the columns cs of the table holds an infinity
NoInfIn(frame, cs) ==
    \A c \in cs : \A i \in DOMAIN frame.data[c] : frame.data[c][i].t # "inf"

\* C20: during a run no cell of the result table holds an infinity, and no
\* computed column of the context of the formula being evaluated does; the
\* table a run delivers and the table the application keeps hold none either.
\* (Not-a-number is the missing marker of the model.)
C20_EveryColumnSanitized ==
    /\ cpc \in {"loop", "eval", "returned", "raised"} =>
          /\ NoInfIn(result_df, Range(result_df.columns))
          /\ Range(computed_vars) \subseteq Range(result_df.columns)
    /\ cpc = "eval" =>
          /\ Range(computed_vars) \subseteq Range(df.columns)
          /\ NoInfIn(df, Range(computed_vars))
    /\ cpc = "returned" =>
          NoInfIn(compute_results.df, Range(compute_results.df.columns))
    /\ NoInfIn(calculated_df, Range(calculated_df.columns))

\* the second formula is being evaluated; the first, 12 / (Rev - 3), divided
\* by zero at the row where Rev is 3, and the context holds missing there
C20_Witness ==
    /\ cpc = "eval"
    /\ idx = 1
    /\ formulas[1].name = "Rev"
    /\ computed_vars = <<"Rev">>
    /\ \E i \in DOMAIN model_df.index :
          /\ model_df.data["Rev"][i] = Num(3)
          /\ isna(df.data["Rev"][i])
          /\ isna(result_df.data["Rev"][i])

-----------------------------------------------------------------------------
(* Claims on scheduling, classification and chunking *)

\* the columns of the formulas before position k + 1 are in the result table
StoredBefore(k) ==
    /\ computed_vars = [i \in 1..k |-> formulas[i].name]
    /\ Range(computed_vars) \subseteq Range(result_df.columns)

\* every task of the pool has been started and has returned
AllTasksReturned ==
    /\ started = Len(tasks)
    /\ running = {}
    /\ DOMAIN chunk_results = 1..Len(tasks)

\* one step of a run obeys the order of the formulas
SequentialStep ==
    \* an evaluation begins only in the loop, for the formula at idx + 1, with no
    \* task of an earlier formula left and the earlier columns stored
    /\ (cpc # "eval" /\ cpc' = "eval") =>
          /\ cpc = "loop"
          /\ idx' = idx
          /\ formula' = resolve_type(formulas[idx + 1])
          /\ running = {} /\ started = 0 /\ tasks = <<>>
          /\ StoredBefore(idx)
    \* a worker task is started only for the formula being evaluated
    /\ started' > started =>
          /\ cpc = "eval" /\ cpc' = "eval"
          /\ formula = resolve_type(formulas[idx + 1])
          /\ StoredBefore(idx)
          /\ running' = running \cup {started'}
          /\ started' \notin DOMAIN chunk_results
    \* an evaluation ends only with every task returned; the column is stored
    \* and the loop moves on by one formula, or the run fails
    /\ (cpc = "eval" /\ cpc' # "eval") =>
          /\ AllTasksReturned
          /\ \/ /\ cpc' = "loop"
                /\ idx' = idx + 1
                /\ computed_vars' = Append(computed_vars, formula.name)
                /\ getitem(result_df', formula.name).values
                       = _sanitize_result(out).values
             \/ cpc' = "raised" /\ idx' = idx
    \* the position goes back only when a new run begins
    /\ idx' # idx => idx' = idx + 1 \/ (idx' = 0 /\ runs' = runs + 1)

\* C21: formulas are evaluated one after another in the order of the list: a
\* worker task is started only for the formula at the current position, after
\* the columns of all earlier formulas are stored; the position moves on, by
\* one, only when every task has returned and the sanitized column is stored;
\* it never goes back within a run, so no formula is evaluated twice.
C21_FormulasStrictlySequential ==
    /\ [][SequentialStep]_vars
    /\ [](running # {} => cpc = "eval" /\ fpc = "pool")

\* a worker task of the second formula, one of several, runs; the column of
\* the first formula, a general expression, is in the result table
C21_Witness ==
    /\ cpc = "eval"
    /\ idx = 1
    /\ running # {}
    /\ Len(tasks) >= 2
    /\ ~_is_row_formula(formulas[1].expression)
    /\ formulas[1].type = ""
    /\ formulas[1].name \in Range(result_df.columns)
    /\ formulas[2].name # formulas[1].name

-----------------------------------------------------------------------------
(* Formula texts.  A text is a sequence of characters; the regular          *)
(* expressions of the classifier and of _evaluate_single_row are matched    *)
(* on it character by character.                                            *)

DigitChars == <<"0", "1", "2", "3", "4", "5", "6", "7", "8", "9">>

\* \d
IsDigit(c) == c \in Range(DigitChars)

\* \w, over the characters of the model's texts
IsWordChar(c) == IsDigit(c) \/ c \in {"A", "B", "p", "m", "x", "_"}

\* \s
IsSpace(c) == c = " "

\* the character at position i (1-based), "" past the end
CharAt(text, i) == IF i \in 1..Len(text) THEN text[i] ELSE ""

\* text[i..j-1], empty when out of range
Slice(text, i, j) ==
    IF i >= 1 /\ j - 1 <= Len(text) /\ i <= j - 1 THEN SubSeq(text, i, j - 1) ELSE <<>>

RECURSIVE word_end(_, _)
\* \w+ from position i, greedy: the position after the run of word characters
word_end(text, i) == IF IsWordChar(CharAt(text, i)) THEN word_end(text, i + 1) ELSE i

RECURSIVE digits_end(_, _)
\* \d* from position i, greedy
digits_end(text, i) == IF IsDigit(CharAt(text, i)) THEN digits_end(text, i + 1) ELSE i

RECURSIVE spaces_end(_, _)
\* \s* from position i, greedy
spaces_end(text, i) == IF IsSpace(CharAt(text, i)) THEN spaces_end(text, i + 1) ELSE i

NoMatch == [ok |-> FALSE, col_name |-> <<>>, offset_str |-> <<>>, end |-> 0]

\* col_pattern = r'(\w+)\s*\(x([-+]\d+)?\)' matched at position i: the two
\* groups and the position after the match
match_col_pattern(text, i) ==
    LET j == word_end(text, i)
        k == spaces_end(text, j)
        d == digits_end(text, k + 3)
    IN IF j = i \/ CharAt(text, k) # "(" \/ CharAt(text, k + 1) # "x" THEN NoMatch
       ELSE IF CharAt(text, k + 2) \in {"+", "-"} /\ d > k + 3 /\ CharAt(text, d) = ")"
       THEN [ok |-> TRUE, col_name |-> Slice(text, i, j),
             offset_str |-> Slice(text, k + 2, d), end |-> d + 1]
       ELSE IF CharAt(text, k + 2) = ")"
       THEN [ok |-> TRUE, col_name |-> Slice(text, i, j),
             offset_str |-> <<>>, end |-> k + 3]
       ELSE NoMatch

RECURSIVE findall_from(_, _)
findall_from(text, i) ==
    IF i > Len(text) THEN <<>>
    ELSE LET m == match_col_pattern(text, i) IN
         IF m.ok THEN <<(<<m.col_name, m.offset_str>>)>> \o findall_from(text, m.end)
         ELSE findall_from(text, i + 1)

\* re.findall(col_pattern, formula_expr) on a text: the (col_name, offset_str)
\* pairs of the non-overlapping matches, from left to right
findall_text(text) == findall_from(text, 1)

\* r'\w+\s*\(x[-+]?\d*\)' matched at position i
match_row_pattern(text, i) ==
    LET j == word_end(text, i)
        k == spaces_end(text, j)
        s == IF CharAt(text, k + 2) \in {"+", "-"} THEN k + 3 ELSE k + 2
    IN /\ j > i
       /\ CharAt(text, k) = "("
       /\ CharAt(text, k + 1) = "x"
       /\ CharAt(text, digits_end(text, s)) = ")"

\* _is_row_formula on a text: bool(re.search(r'\w+\s*\(x[-+]?\d*\)', expr))
is_row_formula_text(text) == \E i \in 1..Len(text) : match_row_pattern(text, i)

DigitValue(c) == (CHOOSE n \in 1..10 : DigitChars[n] = c) - 1

RECURSIVE digits_value(_)
digits_value(ds) ==
    IF ds = <<>> THEN 0
    ELSE 10 * digits_value(SubSeq(ds, 1, Len(ds) - 1)) + DigitValue(ds[Len(ds)])

\* int(offset_str) if offset_str else 0
offset_of(offset_str) ==
    IF offset_str = <<>> THEN 0
    ELSE IF Head(offset_str) = "-" THEN 0 - digits_value(Tail(offset_str))
    ELSE digits_value(Tail(offset_str))

RECURSIVE decimal(_)
\* str(n) for n >= 0
decimal(n) ==
    IF n < 10 THEN <<DigitChars[n + 1]>>
    ELSE decimal(n \div 10) \o <<DigitChars[(n % 10) + 1]>>

\* the synthetic name: f'__{col_name}__'  or  f'__{col_name}__{sign}{abs(offset)}__'
var_name_of(col_name, offset) ==
    IF offset = 0 THEN <<"_", "_">> \o col_name \o <<"_", "_">>
    ELSE <<"_", "_">> \o col_name \o <<"_", "_">>
         \o <<(IF offset > 0 THEN "p" ELSE "m")>>
         \o decimal(IF offset > 0 THEN offset ELSE 0 - offset) \o <<"_", "_">>

\* original_pattern = rf'{re.escape(col_name)}\s*\(x{re.escape(offset_str)}\)'
\* matched at position i: the position after the match, 0 when there is none
match_original_pattern(text, i, col_name, offset_str) ==
    LET j == i + Len(col_name)
        k == spaces_end(text, j)
        e == k + 2 + Len(offset_str)
    IN IF /\ Slice(text, i, j) = col_name
          /\ CharAt(text, k) = "("
          /\ CharAt(text, k + 1) = "x"
          /\ Slice(text, k + 2, e) = offset_str
          /\ CharAt(text, e) = ")"
       THEN e + 1 ELSE 0

RECURSIVE sub_from(_, _, _, _, _)
sub_from(text, i, col_name, offset_str, var_name) ==
    IF i > Len(text) THEN <<>>
    ELSE LET e == match_original_pattern(text, i, col_name, offset_str) IN
         IF e > 0 THEN var_name \o sub_from(text, e, col_name, offset_str, var_name)
         ELSE <<text[i]>> \o sub_from(text, i + 1, col_name, offset_str, var_name)

\* re.sub(original_pattern, var_name, eval_expr)
re_sub(col_name, offset_str, var_name, text) ==
    sub_from(text, 1, col_name, offset_str, var_name)


RECURSIVE split_from(_, _, _)
split_from(text, i, term) ==
    IF i > Len(text) THEN <<term>>
    ELSE IF text[i] = "+" THEN <<term>> \o split_from(text, i + 1, <<>>)
    ELSE split_from(text, i + 1, Append(term, text[i]))

\* the operands of a sum, spaces removed
terms_of(text) ==
    LET raw == split_from(text, 1, <<>>) IN
    [n \in 1..Len(raw) |-> SelectSeq(raw[n], LAMBDA c : ~IsSpace(c))]

\* the value of one operand: a bound name, a number, or the exception raised
\* for anything else (NameError for an unbound name, SyntaxError otherwise)
term_value(term, ns) ==
    IF term \in DOMAIN ns THEN ns[term]
    ELSE IF term # <<>> /\ \A n \in 1..Len(term) : IsDigit(term[n])
    THEN Num(digits_value(term))
    ELSE IF term # <<>> /\ \A n \in 1..Len(term) : IsWordChar(term[n])
    THEN Raise("NameError", "")
    ELSE Raise("SyntaxError", "")

RECURSIVE sum_terms(_, _)
sum_terms(terms, ns) ==
    IF terms = <<>> THEN Num(0)
    ELSE LET a == term_value(Head(terms), ns)
             b == sum_terms(Tail(terms), ns)
         IN IF IsRaise(a) THEN a ELSE IF IsRaise(b) THEN b ELSE Num(a.v + b.v)

\* eval(eval_expr, {}, local_ns) on a text that is a sum of operands
eval_text(text, ns) == sum_terms(terms_of(text), ns)

\* the text-level names of the columns: one name is a suffix of another, and
\* one holds the markers of the synthetic names
ColA == <<"A">>

ColB == <<"B">>

ColBA == <<"B", "A">>

ColA__p1 == <<"A", "_", "_", "p", "1">>

TextColumns == {ColA, ColB, ColBA, ColA__p1}

\* a table of MaxRows rows of one entity with a different number in every cell
TextFrame ==
    [index |-> range(0, MaxRows),
     columns |-> <<ColA, ColB, ColBA, ColA__p1>>,
     data |-> [c \in TextColumns |->
                  [r \in 1..MaxRows |->
                      Num(r + (CASE c = ColA -> 0 [] c = ColB -> 10
                                 [] c = ColBA -> 100 [] OTHER -> 1000))]]]

OffsetTexts == {<<>>, <<"+", "1">>, <<"-", "1">>}

\* the text of the token  col(x), col(x+1), col(x-1)
TokenText(col_name, offset_str) == col_name \o <<"(", "x">> \o offset_str \o <<")">>

TokenTexts == {TokenText(c, o) : c \in TextColumns, o \in OffsetTexts}

\* the formula texts of the model: one token, the sum of two tokens, and
\* texts without a well-formed token
FormulaTexts ==
    TokenTexts
    \cup {a \o <<"+">> \o b : a \in TokenTexts, b \in TokenTexts}
    \cup {ColA \o <<" ", "(", "x", ")">>,
          ColA \o <<"(", "x", "+", ")">>,
          ColA \o <<"(", "x", "1", ")">>,
          ColA,
          ColA \o <<"+">> \o ColB}

\* one call of _evaluate_single_row on a text, after the classifier
InitText ==
    /\ model_df = NoFrame
    /\ formulas = <<>>
    /\ calculated_df = NoFrame
    /\ runs = 0
    /\ cpc = "function"
    /\ idx = 0
    /\ formula = Formula("", NoExpr)
    /\ result_df = NoFrame
    /\ computed_vars = <<>>
    /\ progress = <<>>
    /\ compute_results = NoResults
    /\ df = TextFrame
    /\ formula_expr \in FormulaTexts
    /\ num_workers = 1
    /\ fpc = "idle"
    /\ tasks = <<>>
    /\ started = 0
    /\ running = {}
    /\ chunk_results = <<>>
    /\ done_order = <<>>
    /\ out = NotReturned
    /\ cur_row_idx \in 0..(MaxRows - 1)
    /\ cur_matches = <<>>
    /\ cur_local_ns = <<>>
    /\ cur_eval_expr = <<>>
    /\ tpc = "classify"
    /\ GIdle
    /\ LIdle

\* compute_variables routes the formula: elif _is_row_formula(f['expression'])
RouteRow ==
    /\ tpc = "classify"
    /\ is_row_formula_text(formula_expr)
    /\ tpc' = "row"
    /\ UNCHANGED <<mvars, pvars, fvars, cur_row_idx, cur_matches, cur_local_ns,
                   cur_eval_expr>>
    /\ UNCHANGED not_evars

\* ... else: the general expression evaluator
RouteGeneral ==
    /\ tpc = "classify"
    /\ ~is_row_formula_text(formula_expr)
    /\ tpc' = "general"
    /\ UNCHANGED <<mvars, pvars, fvars, cur_row_idx, cur_matches, cur_local_ns,
                   cur_eval_expr>>
    /\ UNCHANGED not_evars

\* _evaluate_single_row up to the loop: eval_expr = formula_expr, the matches
FindTokens ==
    /\ tpc = "row"
    /\ cur_local_ns' = <<>>
    /\ cur_eval_expr' = formula_expr
    /\ cur_matches' = findall_text(formula_expr)
    /\ tpc' = "bind"
    /\ UNCHANGED <<mvars, pvars, fvars, cur_row_idx>>
    /\ UNCHANGED not_evars

\* one iteration of  for col_name, offset_str in matches
BindToken ==
    /\ tpc = "bind"
    /\ cur_matches # <<>>
    /\ LET col_name == Head(cur_matches)[1]
           offset_str == Head(cur_matches)[2]
           offset == offset_of(offset_str)
           var_name == var_name_of(col_name, offset)
           r == resolve_token(df, col_name, target_row_of(cur_row_idx, offset))
       IN IF r.returned
          THEN /\ out' = NA
               /\ tpc' = "returned"
               /\ UNCHANGED <<cur_local_ns, cur_eval_expr, cur_matches>>
          ELSE /\ cur_local_ns' = (var_name :> r.value) @@ cur_local_ns
               /\ cur_eval_expr' = re_sub(col_name, offset_str, var_name, cur_eval_expr)
               /\ cur_matches' = Tail(cur_matches)
               /\ UNCHANGED <<out, tpc>>
    /\ UNCHANGED <<mvars, pvars, df, formula_expr, num_workers, fpc, tasks, started,
                   running, chunk_results, done_order, cur_row_idx>>
    /\ UNCHANGED not_evars

\* the evaluation of the substituted text and the handlers around it
EvalText ==
    /\ tpc = "bind"
    /\ cur_matches = <<>>
    /\ LET result == eval_text(cur_eval_expr, cur_local_ns) IN
       out' = IF IsRaise(result)
              THEN (IF result.t \in {"_SafeMathError", "ZeroDivisionError",
                                     "FloatingPointError"}
                    THEN on_math_error(result) ELSE on_other_error(result))
              ELSE guard_result(result)
    /\ tpc' = "returned"
    /\ UNCHANGED <<mvars, pvars, df, formula_expr, num_workers, fpc, tasks, started,
                   running, chunk_results, done_order, cur_row_idx, cur_matches,
                   cur_local_ns, cur_eval_expr>>
    /\ UNCHANGED not_evars

NextText ==
    \/ RouteRow
    \/ RouteGeneral
    \/ FindTokens
    \/ BindToken
    \/ EvalText

SpecText == InitText /\ [][NextText]_vars


-----------------------------------------------------------------------------
(* Claims on formula texts (SpecText) *)

\* the formula was routed to the row-relative evaluator
RoutedToRow == tpc \in {"row", "bind", "returned"}

\* C22: a formula is routed to the row-relative evaluator exactly when the
\* token pattern of the evaluator finds an offset token in its text, and to
\* the general expression evaluator otherwise.
C22_RowRouteIffOffsetToken ==
    /\ RoutedToRow => findall_text(formula_expr) # <<>>
    /\ tpc = "general" => findall_text(formula_expr) = <<>>


-----------------------------------------------------------------------------
(* One evaluator call on longer tables of one entity (SpecChunks): the     *)
(* chunks of _compute_eval_formula_parallel and _compute_row_formula_parallel *)

\* the table of n rows of entity A with no missing cell
ChunkFrame(n) == MakeFrame([i \in 1..n |-> Str("A")], [i \in 1..n |-> Num(i + 1)])

ChunkExprs == {Bin("*", Name("Rev"), Lit(2)), Tok("Rev", 0)}

InitChunks ==
    /\ model_df = NoFrame
    /\ formulas = <<>>
    /\ calculated_df = NoFrame
    /\ runs = 0
    /\ cpc = "function"
    /\ idx = 0
    /\ formula = Formula("", NoExpr)
    /\ result_df = NoFrame
    /\ computed_vars = <<>>
    /\ progress = <<>>
    /\ compute_results = NoResults
    /\ df \in {ChunkFrame(n) : n \in 0..MaxChunkRows}
    /\ formula_expr \in ChunkExprs
    /\ num_workers \in 1..MaxChunkWorkers
    /\ fpc = "call"
    /\ tasks = <<>>
    /\ started = 0
    /\ running = {}
    /\ chunk_results = <<>>
    /\ done_order = <<>>
    /\ out = NotReturned
    /\ XIdle

NextChunks ==
    \/ DispatchRowChunks
    \/ EvalSequential
    \/ DispatchEvalChunks
    \/ WorkerStart
    \/ \E w \in 1..MaxChunkRows : WorkerReturn(w)
    \/ Combine

SpecChunks == InitChunks /\ [][NextChunks]_vars

\* the chunks of the tasks are contiguous, non-empty and ascending, begin at
\* row 0 and end at row n - 1
ChunksPartition(ts, n) ==
    /\ Len(ts) >= 1
    /\ ts[1].arg[1] = 0
    /\ ts[Len(ts)].arg[2] = n
    /\ \A c \in 1..Len(ts) : ts[c].arg[1] < ts[c].arg[2]
    /\ \A c \in 1..(Len(ts) - 1) : ts[c + 1].arg[1] = ts[c].arg[2]

\* the tasks whose chunk holds the row at position p
TasksOfRow(p) == {c \in 1..Len(tasks) : tasks[c].arg[1] <= p /\ p < tasks[c].arg[2]}

\* C23: _compute_eval_formula_parallel with n rows and w workers evaluates the
\* expression once, without a pool, when n < w; otherwise it hands the pool
\* chunks that are contiguous, non-empty, disjoint and ascending and cover
\* rows 0..n-1, so that every row is in the chunk of exactly one task, and
\* each task is run once.  (The chunks of the row-relative evaluator on one
\* entity have the same shape.)
C23_ChunksPartitionRows ==
    /\ (fpc \in {"pool", "done"} /\ ~_is_row_formula(formula_expr)) =>
          IF len(df) < num_workers
          THEN fpc = "done" /\ tasks = <<>> /\ started = 0 /\ done_order = <<>>
          ELSE \A c \in 1..Len(tasks) : tasks[c].kind = "eval"
    /\ (fpc \in {"pool", "done"} /\ tasks # <<>>) =>
          /\ ChunksPartition(tasks, len(df))
          /\ \A p \in Positions(df) : Cardinality(TasksOfRow(p)) = 1
          /\ \A c \in 1..Len(tasks) :
                Cardinality({k \in 1..Len(done_order) : done_order[k] = c}) <= 1
          /\ fpc = "done" => Range(done_order) = 1..Len(tasks)

\* five rows on two workers: the chunks (0,2), (2,4) and the shorter (4,5),
\* all returned
C23_Witness ==
    /\ fpc = "done"
    /\ ~_is_row_formula(formula_expr)
    /\ len(df) = 5
    /\ num_workers = 2
    /\ [c \in 1..Len(tasks) |-> tasks[c].arg] = <<(<<0, 2>>), (<<2, 4>>), (<<4, 5>>)>>
    /\ IsSeries(out)
    /\ out.index = df.index


\* the tokens of the text, as (column, offset) pairs
TextTokens(text) ==
    {<<findall_text(text)[n][1], offset_of(findall_text(text)[n][2])>> :
        n \in 1..Len(findall_text(text))}

\* every token of the text reads a row of the table
TokensInBounds(text, p) ==
    \A tok \in TextTokens(text) : p + tok[2] \in Positions(df)

RECURSIVE SumOfCells(_, _)
\* the sum of the cells the matches name, read at row p
SumOfCells(ms, p) ==
    IF ms = <<>> THEN 0
    ELSE iloc_cell(df, p + offset_of(Head(ms)[2]), Head(ms)[1]).v + SumOfCells(Tail(ms), p)

\* a text that is one token or the sum of two
IsTokenSum(text) ==
    \/ text \in TokenTexts
    \/ \E a \in TokenTexts, b \in TokenTexts : text = a \o <<"+">> \o b

\* C24: the synthetic names are free of collisions: different tokens of a
\* text get different names, and the value of a sum of tokens whose cells are
\* all in bounds is the sum of the cells of column C at row p + o over its
\* tokens (C, o), whatever the names of the columns.
C24_SyntheticNamesCollisionFree ==
    /\ \A s \in TextTokens(formula_expr), t \in TextTokens(formula_expr) :
          s # t => var_name_of(s[1], s[2]) # var_name_of(t[1], t[2])
    /\ (tpc = "returned" /\ IsTokenSum(formula_expr)
            /\ TokensInBounds(formula_expr, cur_row_idx)) =>
          out = Num(SumOfCells(findall_text(formula_expr), cur_row_idx))


-----------------------------------------------------------------------------
(* Claims on runs, continued (Spec) *)

\* the row at position p has a missing value in some group column
MissingKey(p) ==
    \E g \in 1..Len(formula.agg_groups) : isna(df.data[formula.agg_groups[g]][p + 1])

-----------------------------------------------------------------------------
(* Claims on the evaluation of one formula, continued (SpecFormula) *)

\* the rows whose cell of column c is the value v; the value cells of the
\* model's tables differ from row to row, so this is the row a value was read at
RowsHolding(frame, c, v) == {q \in Positions(frame) : frame.data[c][q + 1] = v}

\* C26: the value a formula Col(x+N) or Col(x-N) yields at a row is never the
\* cell of a row with another entity id than the row's own, a missing id being
\* another id than any entity's; this in every table, with rows of missing id
\* or with entities whose rows are apart.
C26_NeverReadsAnotherEntity ==
    (RowDone /\ IsSeries(out) /\ formula_expr.k = "tok" /\ formula_expr.off # 0
        /\ formula_expr.col \in DOMAIN df.data) =>
        \A p \in Positions(df) :
            ~isna(OutAt(p)) =>
                \A q \in RowsHolding(df, formula_expr.col, OutAt(p)) :
                    Ids(df)[q + 1] = Ids(df)[p + 1]


\* the value of IF(c, t, e) in which only the selected branch counts
SelectedBranchValue(e, ns) ==
    LET c == py_eval(e.c, ns) IN
    IF IsRaise(c) THEN c
    ELSE IF IF_function(c, TRUE, FALSE) THEN py_eval(e.l, ns) ELSE py_eval(e.r, ns)

\* C27: at a row whose tokens all denote cells, a formula IF(c, t, e) yields
\* the value of t when c holds and the value of e when it does not, also when
\* the branch that is not selected is undefined at that row.
C27_IfYieldsSelectedBranch ==
    (RowDone /\ IsSeries(out) /\ formula_expr.k = "IF") =>
        \A p \in Positions(df) :
            (InSomeEntity(df, p) /\ AllResolved(df, formula_expr, p)) =>
                LET v == SelectedBranchValue(formula_expr, ExpectedNs(df, formula_expr, p))
                IN ~IsRaise(v) => OutAt(p) = v

\* ---------------------------------------------------------------------------
\* The variable generator screen (src/UIs/variable_generator.py)
\* ---------------------------------------------------------------------------

\* the most formulas the user lists
MaxListed == 3

\* no run of compute_variables and no evaluator call has begun
RunIdle ==
    /\ cpc = "idle"
    /\ idx = 0
    /\ formula = Formula("", NoExpr)
    /\ result_df = NoFrame
    /\ computed_vars = <<>>
    /\ progress = <<>>
    /\ compute_results = NoResults
    /\ df = NoFrame
    /\ formula_expr = NoExpr
    /\ num_workers = 1
    /\ fpc = "idle"
    /\ tasks = <<>>
    /\ started = 0
    /\ running = {}
    /\ chunk_results = <<>>
    /\ done_order = <<>>
    /\ out = NotReturned

\* the line of the listbox for a formula: f"{name} = {expr}"
listbox_line(name, expr) == <<name, " = ", expr>>

\* list.pop(idx) and Listbox.delete(idx), on position i of 1..Len(s)
pop_at(s, i) == SubSeq(s, 1, i - 1) \o SubSeq(s, i + 1, Len(s))

\* list.insert(idx, x) and Listbox.insert(idx, x): an index past the end appends
insert_at(s, i, x) ==
    IF i > Len(s) THEN Append(s, x)
    ELSE SubSeq(s, 1, i - 1) \o <<x>> \o SubSeq(s, i, Len(s))

\* the name and expression fields, empty
EmptyEntry == [name |-> "", expression |-> NoExpr]

\* no dialog is open
NoDialog == [open |-> FALSE, kind |-> "", idx |-> 0]

\* no edit has begun
NoEdit == [before |-> <<>>, idx |-> 0, outcome |-> "none"]

\* what the user types into the name and expression fields
EntryChoices ==
    {[name |-> "V", expression |-> Bin("-", Tok("Rev", 0), Tok("Rev", -1))],
     [name |-> "W", expression |-> Bin("+", Name("V"), Name("Rev"))]}

\* what the user confirms in the mean dialog
MeanChoices ==
    {MeanFormula("M", "V", <<id_column>>), MeanFormula("M", "Rev", <<id_column>>)}

\* what the user confirms in the stdev dialog
StdevChoices ==
    {StdevFormula("S", "Rev", <<>>), StdevFormula("S", "Rev", <<id_column>>)}

DialogChoices(kind) == IF kind = "mean" THEN MeanChoices ELSE StdevChoices

InitGenerator ==
    /\ model_df = NoFrame
    /\ formulas = <<>>
    /\ calculated_df = NoFrame
    /\ runs = 0
    /\ RunIdle
    /\ EIdle
    /\ LIdle
    /\ formula_list = <<>>
    /\ entry = EmptyEntry
    /\ dialog = NoDialog
    /\ edit_log = NoEdit

\* the user types a name and an expression into the fields
TypeEntry(e) ==
    /\ ~dialog.open
    /\ entry # e
    /\ entry' = e
    /\ UNCHANGED <<formulas, formula_list, dialog, edit_log>>
    /\ UNCHANGED <<model_df, calculated_df, runs, pvars, fvars, not_gvars>>

\* the user empties the fields: a regular edit that was loaded into them is
\* abandoned
ClearEntry ==
    /\ ~dialog.open
    /\ entry # EmptyEntry
    /\ entry' = EmptyEntry
    /\ edit_log' = IF edit_log.outcome = "editing"
                   THEN [edit_log EXCEPT !.outcome = "cancelled"] ELSE edit_log
    /\ UNCHANGED <<formulas, formula_list, dialog>>
    /\ UNCHANGED <<model_df, calculated_df, runs, pvars, fvars, not_gvars>>

\* _add_variable: the button 'Thêm biến'
_add_variable ==
    /\ ~dialog.open
    /\ ~(entry.name = "" \/ entry.expression = NoExpr)
    /\ Len(formulas) < MaxListed
    /\ formulas' = Append(formulas, Formula(entry.name, entry.expression))
    /\ formula_list' = Append(formula_list, listbox_line(entry.name, entry.expression))
    /\ entry' = EmptyEntry
    /\ edit_log' = IF edit_log.outcome = "editing"
                   THEN [edit_log EXCEPT !.outcome = "confirmed"] ELSE NoEdit
    /\ UNCHANGED dialog
    /\ UNCHANGED <<model_df, calculated_df, runs, pvars, fvars, not_gvars>>

\* _edit_variable, on the selected line i
_edit_variable(i) ==
    /\ ~dialog.open
    /\ i \in 1..Len(formula_list)
    /\ LET f == formulas[i] IN
       /\ edit_log' = [before |-> formulas, idx |-> i, outcome |-> "editing"]
       /\ formula_list' = pop_at(formula_list, i)
       /\ formulas' = pop_at(formulas, i)
       /\ IF f.type \in {"mean", "stdev"}
          THEN /\ dialog' = [open |-> TRUE, kind |-> f.type, idx |-> i]
               /\ UNCHANGED entry
          ELSE /\ entry' = [name |-> f.name, expression |-> f.expression]
               /\ UNCHANGED dialog
    /\ UNCHANGED <<model_df, calculated_df, runs, pvars, fvars, not_gvars>>

\* _remove_variable, on the selected line i, the question answered yes
_remove_variable(i) ==
    /\ ~dialog.open
    /\ i \in 1..Len(formula_list)
    /\ formula_list' = pop_at(formula_list, i)
    /\ formulas' = pop_at(formulas, i)
    /\ edit_log' = NoEdit
    /\ UNCHANGED <<entry, dialog>>
    /\ UNCHANGED <<model_df, calculated_df, runs, pvars, fvars, not_gvars>>

\* _open_mean_dialog and _open_stdev_dialog: the dialog of a new formula
_open_dialog(kind) ==
    /\ ~dialog.open
    /\ Len(formulas) < MaxListed
    /\ dialog' = [open |-> TRUE, kind |-> kind, idx |-> 0]
    /\ edit_log' = NoEdit
    /\ UNCHANGED <<formulas, formula_list, entry>>
    /\ UNCHANGED <<model_df, calculated_df, runs, pvars, fvars, not_gvars>>

\* the dialog's _confirm calls on_apply(name, var, groups) and closes:
\* on_apply of an edit inserts at idx, on_apply of a new formula appends
DialogConfirm(f) ==
    /\ dialog.open
    /\ f \in DialogChoices(dialog.kind)
    /\ IF dialog.idx > 0
       THEN /\ formulas' = insert_at(formulas, dialog.idx, f)
            /\ formula_list' = insert_at(formula_list, dialog.idx,
                                         listbox_line(f.name, f.expression))
            /\ edit_log' = [edit_log EXCEPT !.outcome = "confirmed"]
       ELSE /\ formulas' = Append(formulas, f)
            /\ formula_list' = Append(formula_list, listbox_line(f.name, f.expression))
            /\ UNCHANGED edit_log
    /\ dialog' = NoDialog
    /\ UNCHANGED entry
    /\ UNCHANGED <<model_df, calculated_df, runs, pvars, fvars, not_gvars>>

\* the dialog's Cancel button: win.destroy, on_apply is not called
DialogCancel ==
    /\ dialog.open
    /\ dialog' = NoDialog
    /\ edit_log' = IF dialog.idx > 0
                   THEN [edit_log EXCEPT !.outcome = "cancelled"] ELSE edit_log
    /\ UNCHANGED <<formulas, formula_list, entry>>
    /\ UNCHANGED <<model_df, calculated_df, runs, pvars, fvars, not_gvars>>

NextGenerator ==
    \/ \E e \in EntryChoices : TypeEntry(e)
    \/ ClearEntry
    \/ _add_variable
    \/ \E i \in 1..MaxListed : _edit_variable(i)
    \/ \E i \in 1..MaxListed : _remove_variable(i)
    \/ \E kind \in {"mean", "stdev"} : _open_dialog(kind)
    \/ \E f \in MeanChoices \cup StdevChoices : DialogConfirm(f)
    \/ DialogCancel

SpecGenerator == InitGenerator /\ [][NextGenerator]_vars

\* C28 -- In the variable generator an edit never removes the formula from
\* model.formulas nor changes its position: while the edit is open the list
\* has the formulas it had, after the edit is confirmed the formula is at the
\* index it had before and the others are where they were, after the edit is
\* cancelled or abandoned the list is the list before the edit; and the
\* listbox shows the formulas of model.formulas in their order.
C28_EditKeepsFormulaInPlace ==
    /\ formula_list = [i \in 1..Len(formulas) |->
                          listbox_line(formulas[i].name, formulas[i].expression)]
    /\ edit_log.outcome \in {"editing", "confirmed"} =>
          /\ Len(formulas) = Len(edit_log.before)
          /\ \A i \in 1..Len(formulas) :
                IF i = edit_log.idx
                THEN formulas[i].type = edit_log.before[i].type
                ELSE formulas[i] = edit_log.before[i]
    /\ edit_log.outcome = "cancelled" => formulas = edit_log.before

\* ---------------------------------------------------------------------------
\* Loading the files and choosing the key columns
\* (src/logics/file_handler.py, src/UIs/app.py, src/UIs/column_selection.py)
\* ---------------------------------------------------------------------------

\* a table, or what a call raised instead of returning one
IsFrame(x) == "index" \in DOMAIN x

\* pd.DataFrame of the rows, under the column names
MakeTable(cols, rows) ==
    [index |-> range(0, Len(rows)),
     columns |-> cols,
     data |-> [c \in Range(cols) |->
                 [i \in 1..Len(rows) |->
                     rows[i][CHOOSE k \in 1..Len(cols) : cols[k] = c]]]]

\* the keys of model.file_paths, in the order of the dict
FileTypes == <<"BS", "IS", "CF">>

\* what pd.read_csv / pd.read_excel returns for the file of each type: the
\* files share the key columns, BS and IS both hold Rev with different values
FileTable(ft) ==
    CASE ft = "BS" ->
           MakeTable(<<"Firm", "Year", "Rev">>,
                     <<(<<Str("A"), Num(2021), Num(2)>>),
                       (<<Str("A"), Num(2022), Num(3)>>),
                       (<<Str("B"), Num(2021), Num(4)>>)>>)
      [] ft = "IS" ->
           MakeTable(<<"Firm", "Year", "Rev", "Cost">>,
                     <<(<<Str("B"), Num(2021), Num(40), Num(8)>>),
                       (<<Str("A"), Num(2022), Num(30), Num(7)>>),
                       (<<Str("B"), Num(2022), Num(50), Num(9)>>)>>)
      [] OTHER ->
           MakeTable(<<"Firm", "Year", "Cash">>,
                     <<(<<Str("A"), Num(2021), Num(101)>>),
                       (<<Str("A"), Num(2023), Num(103)>>)>>)

\* the order of Python's str on the column names of the files
ColumnRank(c) ==
    CASE c = "Cash" -> 1 [] c = "Cost" -> 2 [] c = "Firm" -> 3 [] c = "Rev" -> 4
      [] OTHER -> 5

\* sorted(set(names))
sorted_names(names) ==
    [i \in 1..Cardinality(names) |->
        CHOOSE c \in names :
            Cardinality({d \in names : ColumnRank(d) < ColumnRank(c)}) = i - 1]

\* the place of a cell in sort_values: numbers by value, strings in the order
\* of str, missing cells last
value_rank(x) ==
    CASE x.t = "na" -> 9999
      [] x.t = "str" -> IdRank(x)
      [] OTHER -> x.v

\* frame.sort_values(keys, ignore_index=True): a stable sort on the two keys
sort_values(frame, keys) ==
    IF \E k \in Range(keys) : k \notin Range(frame.columns)
    THEN Raise("KeyError", CHOOSE k \in Range(keys) : k \notin Range(frame.columns))
    ELSE LET rank(i) == value_rank(frame.data[keys[1]][i]) * 10000
                        + value_rank(frame.data[keys[2]][i])
             sorted == sort_pairs([i \in 1..len(frame) |-> <<rank(i), i>>])
         IN [index |-> range(0, len(frame)),
             columns |-> frame.columns,
             data |-> [c \in Range(frame.columns) |->
                         [i \in 1..len(frame) |-> frame.data[c][sorted[i][2]]]]]

\* left.merge(right, on=keys, how='outer', suffixes=('', '_dup')) followed by
\* the drop of the _dup columns: a row for each pair of rows with equal keys,
\* then the rows of right without a partner; a column of both tables keeps
\* the cells of left
merge_outer(left, right, keys) ==
    IF \E k \in Range(keys) : k \notin Range(left.columns) \cap Range(right.columns)
    THEN Raise("KeyError",
               CHOOSE k \in Range(keys) :
                   k \notin Range(left.columns) \cap Range(right.columns))
    ELSE LET merge_key(frame, i) == [k \in 1..Len(keys) |-> frame.data[keys[k]][i]]
             partners(i) == SelectSeq(range(1, len(right) + 1),
                                      LAMBDA j : merge_key(right, j) = merge_key(left, i))
             left_rows == Flatten([i \in 1..len(left) |->
                              IF partners(i) = <<>> THEN <<(<<i, 0>>)>>
                              ELSE [m \in 1..Len(partners(i)) |-> <<i, partners(i)[m]>>]])
             right_rows == SelectSeq([j \in 1..len(right) |-> <<0, j>>],
                               LAMBDA p : \A i \in 1..len(left) :
                                              merge_key(left, i) # merge_key(right, p[2]))
             rows == left_rows \o right_rows
             cols == left.columns
                     \o SelectSeq(right.columns, LAMBDA c : c \notin Range(left.columns))
             cell(c, p) ==
                 IF c \in Range(keys)
                 THEN (IF p[1] > 0 THEN left.data[c][p[1]] ELSE right.data[c][p[2]])
                 ELSE IF c \in Range(left.columns)
                 THEN (IF p[1] > 0 THEN left.data[c][p[1]] ELSE NA)
                 ELSE (IF p[2] > 0 THEN right.data[c][p[2]] ELSE NA)
         IN [index |-> range(0, Len(rows)),
             columns |-> cols,
             data |-> [c \in Range(cols) |-> [i \in 1..Len(rows) |-> cell(c, rows[i])]]]

RECURSIVE merge_all(_, _, _)
\* for df in dfs_list[1:]: merged = merged.merge(df, ...)
merge_all(merged, dfs_list, keys) ==
    IF dfs_list = <<>> \/ ~IsFrame(merged) THEN merged
    ELSE merge_all(merge_outer(merged, Head(dfs_list), keys), Tail(dfs_list), keys)

\* merge_files_on_keys(dfs_by_type, id_col, time_col)
merge_files_on_keys(dfs, id_col, time_col) ==
    LET merge_keys == <<id_col, time_col>>
        dfs_list == [i \in 1..Len(dfs) |-> dfs[i][2]]
    IN IF dfs_list = <<>> THEN Raise("ValueError", "no file")
       ELSE LET merged == merge_all(Head(dfs_list), Tail(dfs_list), merge_keys)
            IN IF IsFrame(merged) THEN sort_values(merged, merge_keys) ELSE merged

\* dfs_by_type[ft] = df_temp
dict_set(dfs, ft, table) ==
    IF \E i \in 1..Len(dfs) : dfs[i][1] = ft
    THEN [i \in 1..Len(dfs) |-> IF dfs[i][1] = ft THEN <<ft, table>> ELSE dfs[i]]
    ELSE Append(dfs, <<ft, table>>)

RECURSIVE add_sources(_, _, _)
\* for col in df_temp.columns: the first file type of a column, then "/" and
\* each further one
add_sources(sources, cols, ft) ==
    IF cols = <<>> THEN sources
    ELSE LET col == Head(cols) IN
         add_sources(
             IF col \notin DOMAIN sources THEN (col :> <<ft>>) @@ sources
             ELSE IF ft \notin Range(sources[col])
             THEN (col :> Append(sources[col], ft)) @@ sources
             ELSE sources,
             Tail(cols), ft)

\* selected_files: the selected file types in the order of file_paths
selected_files(paths) == SelectSeq(FileTypes, LAMBDA ft : ft \in paths)

InitLoad ==
    /\ model_df = NoFrame
    /\ formulas = <<>>
    /\ calculated_df = NoFrame
    /\ runs = 0
    /\ RunIdle
    /\ EIdle
    /\ GIdle
    /\ file_paths \in SUBSET Range(FileTypes)
    /\ dfs_by_type = <<>>
    /\ column_sources = <<>>
    /\ available_vars = <<>>
    /\ model_id_col = ""
    /\ model_time_col = ""
    /\ pending = {}
    /\ completed = 0
    /\ load_progress = <<>>
    /\ wpc = "wizard"

\* load_individual_files, up to the submission of the tasks; with no file
\* selected it raises ValueError and finish_loading shows the error
SubmitLoads ==
    /\ wpc = "wizard"
    /\ IF file_paths = {}
       THEN /\ wpc' = "load_error"
            /\ UNCHANGED pending
       ELSE /\ wpc' = "loading"
            /\ pending' = file_paths
    /\ UNCHANGED <<file_paths, dfs_by_type, column_sources, available_vars,
                   model_id_col, model_time_col, completed, load_progress>>
    /\ UNCHANGED <<mvars, pvars, fvars, not_lvars>>

\* one iteration of "for future in as_completed(futures)": the future of
\* file type ft is the next one the iterator yields
FutureCompleted(ft) ==
    /\ wpc = "loading"
    /\ ft \in pending
    /\ pending' = pending \ {ft}
    /\ completed' = completed + 1
    /\ load_progress' = Append(load_progress,
                               <<completed + 1, Cardinality(file_paths), ft>>)
    /\ dfs_by_type' = dict_set(dfs_by_type, ft, FileTable(ft))
    /\ column_sources' = add_sources(column_sources, FileTable(ft).columns, ft)
    /\ UNCHANGED <<file_paths, available_vars, model_id_col, model_time_col, wpc>>
    /\ UNCHANGED <<mvars, pvars, fvars, not_lvars>>

\* the return of load_individual_files and finish_loading: the model takes
\* the three values and the column selection screen is shown
finish_loading ==
    /\ wpc = "loading"
    /\ pending = {}
    /\ available_vars' = sorted_names(DOMAIN column_sources)
    /\ wpc' = "selection"
    /\ UNCHANGED <<file_paths, dfs_by_type, column_sources, model_id_col,
                   model_time_col, pending, completed, load_progress>>
    /\ UNCHANGED <<mvars, pvars, fvars, not_lvars>>

\* _check_continuous_years with the two combo boxes holding id and time; the
\* report it shows changes no state
_check_continuous_years(id, time) ==
    /\ wpc = "selection"
    /\ id # time
    /\ LET merged_df == merge_files_on_keys(dfs_by_type, id, time) IN
       model_df' = IF IsFrame(merged_df) THEN merged_df ELSE model_df
    /\ UNCHANGED <<formulas, calculated_df, runs>>
    /\ UNCHANGED <<pvars, fvars, not_lvars, lvars>>

\* _confirm with the two combo boxes holding id and time
_confirm(id, time) ==
    /\ wpc = "selection"
    /\ id # time
    /\ model_id_col' = id
    /\ model_time_col' = time
    /\ LET merged_df == IF model_df = NoFrame
                        THEN merge_files_on_keys(dfs_by_type, id, time)
                        ELSE model_df
       IN IF IsFrame(merged_df)
          THEN /\ model_df' = merged_df
               /\ wpc' = "generator"
          ELSE UNCHANGED <<model_df, wpc>>
    /\ UNCHANGED <<formulas, calculated_df, runs>>
    /\ UNCHANGED <<file_paths, dfs_by_type, column_sources, available_vars,
                   pending, completed, load_progress>>
    /\ UNCHANGED <<pvars, fvars, not_lvars>>

NextLoad ==
    \/ SubmitLoads
    \/ \E ft \in Range(FileTypes) : FutureCompleted(ft)
    \/ finish_loading
    \/ \E id, time \in Range(available_vars) : _check_continuous_years(id, time)
    \/ \E id, time \in Range(available_vars) : _confirm(id, time)

SpecLoad == InitLoad /\ [][NextLoad]_vars

\* C29 -- Whenever Confirm succeeds with the pair (id column, time column),
\* the dataset stored in the model is the merge of the loaded files on that
\* pair, sorted by it, whatever checks and confirmations came before.
C29_StoredIsMergeOnConfirmedPair ==
    wpc = "generator" =>
        model_df = merge_files_on_keys(dfs_by_type, model_id_col, model_time_col)

RECURSIVE load_in_order(_, _, _)
\* the loop body of load_individual_files applied to the file types fts in
\* this order, from the dicts dfs and sources
load_in_order(fts, dfs, sources) ==
    IF fts = <<>> THEN [dfs |-> dfs, sources |-> sources]
    ELSE load_in_order(Tail(fts),
                       dict_set(dfs, Head(fts), FileTable(Head(fts))),
                       add_sources(sources, FileTable(Head(fts)).columns, Head(fts)))

\* the files are loaded
Loaded == wpc \in {"selection", "generator"}

\* the counts of the progress_callback calls
ProgressCounts == [i \in 1..Len(load_progress) |-> load_progress[i][1]]

\* C30 -- The outcome of loading and merging the selected files is the same
\* for every order in which the loader threads complete: the order of
\* dfs_by_type, column_sources and the merge on any pair of columns are those
\* of the files taken in the order of file_paths, and the progress counts are
\* 1..total in increasing order.
C30_LoadIndependentOfCompletionOrder ==
    Loaded =>
        LET inorder == load_in_order(selected_files(file_paths), <<>>, <<>>) IN
        /\ dfs_by_type = inorder.dfs
        /\ column_sources = inorder.sources
        /\ \A id, time \in Range(available_vars) :
              id # time => merge_files_on_keys(dfs_by_type, id, time)
                           = merge_files_on_keys(inorder.dfs, id, time)
        /\ ProgressCounts = range(1, Cardinality(file_paths) + 1)

====
